---------------------------- MODULE Spec2Model ----------------------------
(***************************************************************************)
(* A model of the API gateway of martinadamsdev/go-admin: the middleware   *)
(* pipeline of buildMiddlewareChain, the token-bucket limiter, the LRU+TTL *)
(* cache, the circuit breaker and the backend pool.                        *)
(*                                                                         *)
(* Time is a discrete monotonic clock `now` (ticks).  Token balances are   *)
(* kept in fixed point: one token is TokenUnit units and the limiter's     *)
(* rate adds RatePerTick units per tick, so that a fraction of a token can *)
(* accumulate as it does in the float64 arithmetic of the source.          *)
(***************************************************************************)
EXTENDS Integers, Sequences, FiniteSets, TLC

(***************************************************************************)
(* Bounds of the model and configuration inputs.                           *)
(***************************************************************************)
MaxTime == 5
\* calls of Allow started in one behaviour of the limiter specification
MaxCalls == 4
\* fixed-point scale of token balances: units per token
TokenUnit == 2
\* RateLimitConfig.RequestsPerSecond, in units per tick
RatePerTick == 1
\* RateLimitConfig.BurstSize, in tokens
BurstSize == 1
\* Cleanup's idle limit (5 minutes), in ticks
IdleLimit == 3
\* CacheConfig.MaxSize
CacheMaxSize == 2
\* CacheConfig.TTL, in ticks
CacheTTL == 2
\* requests the pipeline specification serves in one behaviour
MaxServed == 2
\* the last tick of the clock in the pipeline specification
MaxClock == 1
\* BackendConfig.RetryAttempts
RetryAttempts == 1
\* CircuitBreakerConfig.Threshold
CBThreshold == 1
\* CircuitBreakerConfig.Timeout, in ticks
CBTimeout == 1
\* CircuitBreakerConfig.MaxRequests
CBMaxRequests == 1
\* number of configured backend URLs
NumBackends == 2
NumCallers == 3
MaxRounds == 2
MaxConns == 1
RetryDelay == 1

Min(a, b) == IF a < b THEN a ELSE b

VARIABLES
    now,        \* the monotonic clock read by time.Now()
    perIP,      \* TokenBucketLimiter.perIP
    buckets,    \* TokenBucketLimiter.buckets: key -> bucket object id, 0 when absent
    heap,       \* bucket objects: id -> [tokens, lastCheck], NoBucket when unused
    apc,        \* per goroutine: the place of its Allow call
    rlCalls,    \* number of Allow calls started
    ep,         \* per key: the calls served by the bucket the map holds for the key
    lastTake,   \* the last token-bucket update, as observed
    grants,     \* the times of the latest grants of each key, by concurrent calls
    items,      \* LRUCache.items: key -> list element id, 0 when absent
    evictList,  \* LRUCache.evictList: element ids, front first
    entries,    \* the cacheEntry of each list element: id -> [key, value, expireTime]
    cacheRes,   \* the last cache operation and what it returned
    lastSet,    \* per key still cached: the value and the time of its last Set
    recency,    \* the cached keys, the one Set or successfully read last first
    rq,         \* the request in the pipeline: its headers, its goroutines, its response
    served,     \* number of requests accepted so far
    healthy,    \* the healthy flag of main
    crashed,    \* the process has died of an unrecovered panic
    ipBlacklist, \* SecurityConfig.IPBlacklist
    metrics,    \* the counters of the Metrics singleton
    cb,         \* CircuitBreaker: [state, failures, lastFailTime, requests]
    backendAlive, \* Backend.Alive of each backend
    conns,      \* Backend.Connections of each backend
    current,    \* RoundRobinBalancer.current
    cp,         \* the calls of the breaker made by concurrent requests in the Proxy stage
    streak,     \* failures recorded in Closed since the last success or closing
    cbEv,       \* the last step of a breaker call
    recovered,  \* the upstream has recovered: every fn that returns succeeds
    scan,       \* the NextBackend call in progress
    lbCalls,    \* number of NextBackend calls started
    picks,      \* what the round-robin call that drew each counter value returned
    px,         \* a call of proxyRequestWithRetry, with the requests it sent
    hc,         \* the last health probe that completed
    backendStatus,  \* Metrics.BackendStatus
    stats,      \* backend_status of the last GetStats
    calls,      \* the proxy calls of concurrent requests
    loops,      \* the background loops of the limiter, the cache and the health checker
    probes      \* the health probes started so far, in the order of their start

limiterVars == <<perIP, buckets, heap, apc, rlCalls, ep, lastTake, grants>>
cacheVars == <<items, evictList, entries, cacheRes, lastSet, recency>>
callVars == <<cp, streak, cbEv, recovered>>
lbVars == <<scan, lbCalls, picks>>
healthVars == <<hc, backendStatus, stats>>
bgVars == <<loops, probes>>
moreVars == <<calls, bgVars>>
sideVars == <<callVars, lbVars, px, healthVars, moreVars>>
poolVars == <<cb, backendAlive, conns, current, sideVars>>
pipeVars == <<rq, served, healthy, crashed, ipBlacklist, metrics>>

vars == <<now, limiterVars, cacheVars, poolVars, pipeVars>>

----------------------------------------------------------------------------
(***************************************************************************)
(* Token-bucket limiter (ratelimiter.go)                                   *)
(***************************************************************************)
ClientIPs == {"ipA", "ipB"}
Keys == ClientIPs \cup {"global"}
Procs == {1, 2}
BucketIds == 1..(Cardinality(Keys) + Cardinality(Procs))
NoBucket == [tokens |-> -1, lastCheck |-> -1]
IdleProc == [pc |-> "idle", key |-> "", b |-> 0]
NoTake == [key |-> "", before |-> 0, elapsed |-> 0, after |-> 0, ok |-> FALSE]
NoEpisode == [t0 |-> 0, n |-> 0, g |-> 0]

burst == BurstSize * TokenUnit

\* Allow, lines 56-59: the key a call uses
LimiterKey(key) == IF perIP THEN key ELSE "global"

\* a refill that forgets the cap at burst
RefillNoCap(b, t) == b.tokens + (t - b.lastCheck) * RatePerTick

\* Allow, lines 84-92: the balance after the refill at time t
Refill(b, t) == Min(burst, b.tokens + (t - b.lastCheck) * RatePerTick)

\* a test that lets a fraction of a token pass
HasTokenAnyFraction(tokens) == tokens > 0

\* Allow, lines 94-100: is a token available in a refilled balance
HasToken(tokens) == tokens >= TokenUnit

\* Allow, lines 81-100: the bucket after the call at time t
TakeToken(b, t) ==
    LET refilled == Refill(b, t)
    IN  [tokens |-> IF HasToken(refilled) THEN refilled - TokenUnit ELSE refilled,
         lastCheck |-> t]

\* the last BurstSize + 1 entries of a log of grant times
Latest(log) == IF Len(log) > BurstSize + 1 THEN Tail(log) ELSE log

\* bucket objects still reachable from the map or from a running call
Referenced(bks, pcs) ==
    {bks[k] : k \in Keys} \cup {pcs[p].b : p \in Procs}

Collect(h, bks, pcs) ==
    [id \in BucketIds |-> IF id \in Referenced(bks, pcs) THEN h[id] ELSE NoBucket]

FreeId(h) == CHOOSE id \in BucketIds : h[id] = NoBucket /\ \A j \in BucketIds : h[j] = NoBucket => id <= j

\* Allow, lines 61-66: the lookup under the read lock
AllowBegin(p, k) ==
    /\ apc[p].pc = "idle"
    /\ rlCalls < MaxCalls
    /\ LET key == LimiterKey(k)
           b == buckets[key]
       IN  apc' = [apc EXCEPT ![p] = [pc |-> IF b = 0 THEN "create" ELSE "take",
                                      key |-> key, b |-> b]]
    /\ rlCalls' = rlCalls + 1
    /\ UNCHANGED <<now, perIP, buckets, heap, ep, lastTake, grants, cacheVars, poolVars,
                   pipeVars>>

\* a second lookup that never finds the bucket
ExistsNever(bks, key) == FALSE

\* Allow, lines 68-70: the second lookup, under the write lock
Exists(bks, key) == bks[key] # 0

\* Allow, lines 66-78: the re-check and the insertion under the write lock
AllowCreate(p) ==
    /\ apc[p].pc = "create"
    /\ LET key == apc[p].key
       IN  IF Exists(buckets, key)
           THEN /\ apc' = [apc EXCEPT ![p] = [pc |-> "take", key |-> key, b |-> buckets[key]]]
                /\ UNCHANGED <<buckets, heap, ep>>
           ELSE LET id == FreeId(heap)
                IN  /\ heap' = [heap EXCEPT ![id] = [tokens |-> burst, lastCheck |-> now]]
                    /\ buckets' = [buckets EXCEPT ![key] = id]
                    /\ apc' = [apc EXCEPT ![p] = [pc |-> "take", key |-> key, b |-> id]]
                    /\ ep' = [ep EXCEPT ![key] = [t0 |-> now, n |-> 0, g |-> 0]]
    /\ UNCHANGED <<now, perIP, rlCalls, lastTake, grants, cacheVars, poolVars, pipeVars>>

\* Allow, lines 80-100: the token-bucket update under the bucket's lock
AllowTake(p) ==
    /\ apc[p].pc = "take"
    /\ LET id == apc[p].b
           key == apc[p].key
           old == heap[id]
           new == TakeToken(old, now)
           ok == HasToken(Refill(old, now))
           pcs == [apc EXCEPT ![p] = IdleProc]
       IN  /\ heap' = Collect([heap EXCEPT ![id] = new], buckets, pcs)
           /\ apc' = pcs
           /\ lastTake' = [key |-> key, before |-> old.tokens,
                           elapsed |-> now - old.lastCheck, after |-> new.tokens, ok |-> ok]
           /\ ep' = IF buckets[key] = id
                    THEN [ep EXCEPT ![key] = [t0 |-> @.t0, n |-> @.n + 1,
                                              g |-> @.g + (IF ok THEN 1 ELSE 0)]]
                    ELSE ep
           /\ grants' = IF ok THEN [grants EXCEPT ![key] = Latest(Append(@, now))] ELSE grants
    /\ UNCHANGED <<now, perIP, buckets, rlCalls, cacheVars, poolVars, pipeVars>>

\* a test that already removes a bucket unused for exactly the limit
UnusedAtLimit(b, t) == t - b.lastCheck >= IdleLimit

\* Cleanup, line 116: the bucket was last used more than five minutes before t
Unused(b, t) == t - b.lastCheck > IdleLimit

\* Cleanup, lines 104-121
Cleanup ==
    /\ LET idle == {k \in Keys : buckets[k] # 0 /\ Unused(heap[buckets[k]], now)}
           bks == [k \in Keys |-> IF k \in idle THEN 0 ELSE buckets[k]]
       IN  /\ idle # {}
           /\ buckets' = bks
           /\ heap' = Collect(heap, bks, apc)
           /\ ep' = [k \in Keys |-> IF k \in idle THEN NoEpisode ELSE ep[k]]
    /\ UNCHANGED <<now, perIP, apc, rlCalls, lastTake, grants, cacheVars, poolVars,
                   pipeVars>>

----------------------------------------------------------------------------
(***************************************************************************)
(* LRU+TTL cache (the second file of ratelimiter.go).  Every operation     *)
(* holds c.mu for its whole body, so each is one step.                     *)
(***************************************************************************)
CacheKeys == {"GET:/api/v1/resource", "GET:/health", "GET:/metrics"}
CacheValues == {"resource", "OK"}
ElemIds == 1..(CacheMaxSize + 1)
NoEntry == [key |-> "", value |-> "", expireTime |-> -1]
NoCacheRes == [op |-> "", key |-> "", found |-> FALSE, value |-> "", evicted |-> ""]
NoSet == [v |-> "", at |-> -1, replaced |-> FALSE]

SeqToSet(l) == {l[i] : i \in 1..Len(l)}

\* container/list: Remove, PushFront, MoveToFront, Back
ListRemove(l, e) == SelectSeq(l, LAMBDA x : x # e)
PushFront(l, e) == <<e>> \o l
MoveToFront(l, e) == <<e>> \o ListRemove(l, e)
Back(l) == l[Len(l)]

\* a removal that takes the node off the list and leaves the index entry
RemoveFromListOnly(c, e) ==
    [c EXCEPT !.evictList = ListRemove(c.evictList, e),
              !.entries = [c.entries EXCEPT ![e] = NoEntry]]

\* removeElement, lines 309-313, on the cache c = [items, evictList, entries]
removeElement(c, e) ==
    [items |-> [c.items EXCEPT ![c.entries[e].key] = 0],
     evictList |-> ListRemove(c.evictList, e),
     entries |-> [c.entries EXCEPT ![e] = NoEntry]]

\* an eviction that takes the node at the front
evictFront(c) == IF c.evictList # <<>> THEN removeElement(c, Head(c.evictList)) ELSE c

\* evictOldest, lines 301-306
evictOldest(c) == IF c.evictList # <<>> THEN removeElement(c, Back(c.evictList)) ELSE c

\* a test that finds no entry expired
ExpiredNever(entry, t) == FALSE

\* time.Now().After(entry.expireTime)
Expired(entry, t) == t > entry.expireTime

RECURSIVE RemoveAll(_, _)
RemoveAll(c, es) ==
    IF es = <<>> THEN c ELSE RemoveAll(removeElement(c, Head(es)), Tail(es))

TheCache == [items |-> items, evictList |-> evictList, entries |-> entries]

SetCache(c) ==
    /\ items' = c.items
    /\ evictList' = c.evictList
    /\ entries' = c.entries

NewElem(c) == CHOOSE e \in ElemIds : e \notin SeqToSet(c.evictList)
                                     /\ \A j \in ElemIds : j \notin SeqToSet(c.evictList) => e <= j

\* Get, lines 200-225: the cache after the call and what it returns
GetResult(c, key, t) ==
    LET e == c.items[key]
    IN  IF e = 0 THEN [cache |-> c, found |-> FALSE, value |-> ""]
        ELSE IF Expired(c.entries[e], t)
        THEN [cache |-> removeElement(c, e), found |-> FALSE, value |-> ""]
        ELSE [cache |-> [c EXCEPT !.evictList = MoveToFront(c.evictList, e)],
              found |-> TRUE, value |-> c.entries[e].value]

\* a Set that, for a key already cached, moves the node and keeps the old payload
SetResultKeepsOld(c, key, value, t) ==
    LET e == c.items[key]
    IN  IF e # 0
        THEN [c EXCEPT !.evictList = MoveToFront(c.evictList, e)]
        ELSE LET n == NewElem(c)
                 pushed == [items |-> [c.items EXCEPT ![key] = n],
                            evictList |-> PushFront(c.evictList, n),
                            entries |-> [c.entries EXCEPT ![n] =
                                            [key |-> key, value |-> value, expireTime |-> t + CacheTTL]]]
             IN  IF Len(pushed.evictList) > CacheMaxSize THEN evictOldest(pushed) ELSE pushed

\* Set, lines 228-259: the cache after the call
SetResult(c, key, value, t) ==
    LET e == c.items[key]
    IN  IF e # 0
        THEN [c EXCEPT !.evictList = MoveToFront(c.evictList, e),
                       !.entries = [c.entries EXCEPT ![e] =
                                       [key |-> key, value |-> value, expireTime |-> t + CacheTTL]]]
        ELSE LET n == NewElem(c)
                 pushed == [items |-> [c.items EXCEPT ![key] = n],
                            evictList |-> PushFront(c.evictList, n),
                            entries |-> [c.entries EXCEPT ![n] =
                                            [key |-> key, value |-> value, expireTime |-> t + CacheTTL]]]
             IN  IF Len(pushed.evictList) > CacheMaxSize THEN evictOldest(pushed) ELSE pushed

\* the record of uses after an operation that left the cache as c: a key that is no
\* longer cached is forgotten, a Set or a successful Get makes its key the last used
Track(c, op, key, value, hit) ==
    /\ lastSet' = [k \in CacheKeys |->
                     IF c.items[k] = 0 THEN NoSet
                     ELSE IF op = "Set" /\ k = key
                     THEN [v |-> value, at |-> now,
                           replaced |-> items[k] # 0 /\ entries[items[k]].value # value]
                     ELSE lastSet[k]]
    /\ recency' = SelectSeq(IF op = "Set" \/ (op = "Get" /\ hit)
                            THEN <<key>> \o SelectSeq(recency, LAMBDA x : x # key)
                            ELSE recency,
                            LAMBDA x : c.items[x] # 0)

\* Get, lines 200-225
Get(key) ==
    /\ LET r == GetResult(TheCache, key, now)
       IN  /\ SetCache(r.cache)
           /\ Track(r.cache, "Get", key, "", r.found)
           /\ cacheRes' = [op |-> "Get", key |-> key, found |-> r.found, value |-> r.value,
                           evicted |-> IF items[key] # 0 /\ r.cache.items[key] = 0
                                       THEN key ELSE ""]
    /\ UNCHANGED <<now, limiterVars, poolVars, pipeVars>>

\* Set, lines 228-259
Set(key, value) ==
    /\ LET c == SetResult(TheCache, key, value, now)
           gone == {k \in CacheKeys : items[k] # 0 /\ c.items[k] = 0}
       IN  /\ SetCache(c)
           /\ Track(c, "Set", key, value, FALSE)
           /\ cacheRes' = [op |-> "Set", key |-> key, found |-> items[key] # 0, value |-> value,
                           evicted |-> IF gone = {} THEN "" ELSE CHOOSE k \in gone : TRUE]
    /\ UNCHANGED <<now, limiterVars, poolVars, pipeVars>>

\* Delete, lines 262-273
Delete(key) ==
    /\ LET c == IF items[key] # 0 THEN removeElement(TheCache, items[key]) ELSE TheCache
       IN  /\ SetCache(c)
           /\ Track(c, "Delete", key, "", FALSE)
    /\ cacheRes' = [op |-> "Delete", key |-> key, found |-> items[key] # 0, value |-> "",
                    evicted |-> ""]
    /\ UNCHANGED <<now, limiterVars, poolVars, pipeVars>>

\* Clear, lines 276-286
Clear ==
    /\ items' = [k \in CacheKeys |-> 0]
    /\ evictList' = <<>>
    /\ entries' = [e \in ElemIds |-> NoEntry]
    /\ lastSet' = [k \in CacheKeys |-> NoSet]
    /\ recency' = <<>>
    /\ cacheRes' = [NoCacheRes EXCEPT !.op = "Clear"]
    /\ UNCHANGED <<now, limiterVars, poolVars, pipeVars>>

\* LRUCache.Cleanup, lines 316-339: the expired elements from the back, then removed one by one
CacheCleanup ==
    /\ LET rev == [i \in 1..Len(evictList) |-> evictList[Len(evictList) + 1 - i]]
           toRemove == SelectSeq(rev, LAMBDA e : Expired(entries[e], now))
       IN  /\ toRemove # <<>>
           /\ SetCache(RemoveAll(TheCache, toRemove))
           /\ Track(RemoveAll(TheCache, toRemove), "Cleanup", "", "", FALSE)
    /\ cacheRes' = [NoCacheRes EXCEPT !.op = "Cleanup"]
    /\ UNCHANGED <<now, limiterVars, poolVars, pipeVars>>

\* NewCache, lines 180-197
CacheStart ==
    /\ items = [k \in CacheKeys |-> 0]
    /\ evictList = <<>>
    /\ entries = [e \in ElemIds |-> NoEntry]
    /\ cacheRes = NoCacheRes
    /\ lastSet = [k \in CacheKeys |-> NoSet]
    /\ recency = <<>>

----------------------------------------------------------------------------
(***************************************************************************)
(* Circuit breaker (circuitbreaker.go) and backend pool (load_balancer.go) *)
(***************************************************************************)
Backends == 0..(NumBackends - 1)
Callers == 1..NumCallers
NoBackend == -1

beforeRequestNeverProbes(c, t) ==
    CASE c.state = "Closed" -> [cb |-> c, err |-> ""]
      [] c.state = "Open" -> [cb |-> c, err |-> "ErrCircuitOpen"]
      [] c.state = "HalfOpen" ->
            IF c.requests >= CBMaxRequests
            THEN [cb |-> c, err |-> "ErrTooManyRequests"]
            ELSE [cb |-> [c EXCEPT !.requests = @ + 1], err |-> ""]

\* beforeRequest, lines 66-95: the breaker after the gate and the error it returns
beforeRequest(c, t) ==
    CASE c.state = "Closed" -> [cb |-> c, err |-> ""]
      [] c.state = "Open" ->
            IF t - c.lastFailTime > CBTimeout
            THEN [cb |-> [c EXCEPT !.state = "HalfOpen", !.requests = 0], err |-> ""]
            ELSE [cb |-> c, err |-> "ErrCircuitOpen"]
      [] c.state = "HalfOpen" ->
            IF c.requests >= CBMaxRequests
            THEN [cb |-> c, err |-> "ErrTooManyRequests"]
            ELSE [cb |-> [c EXCEPT !.requests = @ + 1], err |-> ""]

onSuccessStaysHalfOpen(c) ==
    CASE c.state = "Closed" -> [c EXCEPT !.failures = 0]
      [] OTHER -> c

\* onSuccess, lines 110-122
onSuccess(c) ==
    CASE c.state = "Closed" -> [c EXCEPT !.failures = 0]
      [] c.state = "HalfOpen" -> [c EXCEPT !.state = "Closed", !.failures = 0, !.requests = 0]
      [] OTHER -> c

onFailureOpensEarly(c, t) ==
    LET f == [c EXCEPT !.failures = @ + 1, !.lastFailTime = t]
    IN  CASE c.state = "Closed" ->
                IF f.failures + 1 >= c.threshold THEN [f EXCEPT !.state = "Open"] ELSE f
          [] c.state = "HalfOpen" -> [f EXCEPT !.state = "Open", !.requests = 0]
          [] OTHER -> f

\* onFailure, lines 125-148
onFailure(c, t) ==
    LET f == [c EXCEPT !.failures = @ + 1, !.lastFailTime = t]
    IN  CASE c.state = "Closed" ->
                IF f.failures >= c.threshold THEN [f EXCEPT !.state = "Open"] ELSE f
          [] c.state = "HalfOpen" -> [f EXCEPT !.state = "Open", !.requests = 0]
          [] OTHER -> f

afterRequestClosesOnSuccess(c, failed, t) ==
    IF failed THEN onFailure(c, t)
    ELSE [c EXCEPT !.state = "Closed", !.failures = 0, !.requests = 0]

\* afterRequest, lines 98-107
afterRequest(c, failed, t) == IF failed THEN onFailure(c, t) ELSE onSuccess(c)

RoundRobinPickAny(cur, aliveOf) == cur % NumBackends

RoundRobinPickFromZero(cur, aliveOf) ==
    LET hits == {i \in 0..(NumBackends - 1) : aliveOf[i]}
    IN  IF hits = {} THEN NoBackend ELSE CHOOSE i \in hits : \A j \in hits : i <= j

\* RoundRobinBalancer.NextBackend, lines 125-146, with the counter already advanced to cur
RoundRobinPick(cur, aliveOf) ==
    IF NumBackends = 0 THEN NoBackend
    ELSE LET start == cur % NumBackends
             hits == {i \in 0..(NumBackends - 1) : aliveOf[(start + i) % NumBackends]}
         IN  IF hits = {} THEN NoBackend
             ELSE (start + (CHOOSE i \in hits : \A j \in hits : i <= j)) % NumBackends

NoCall == [pc |-> "idle", probe |-> FALSE, err |-> "", sent |-> 0, status |-> 0]
NoEvent == [kind |-> "", p |-> 0, err |-> "", failed |-> FALSE, state |-> ""]
Strategies == {"round-robin", "least-conn", "random"}
NoScan == [strategy |-> "", pc |-> "idle", ctr |-> 0, start |-> 0, i |-> 0, alive |-> <<>>,
           selected |-> NoBackend, minConns |-> -1, result |-> NoBackend,
           alive0 |-> <<>>, stable |-> TRUE, conns0 |-> <<>>, steady |-> TRUE]

\* NewCircuitBreaker, lines 34-43, with config.Threshold = T
BreakerStart(T) ==
    /\ cb = [state |-> "Closed", failures |-> 0, lastFailTime |-> 0, requests |-> 0,
             threshold |-> T]
    /\ cp = [p \in Callers |-> NoCall]
    /\ streak = 0
    /\ cbEv = NoEvent
    /\ recovered = FALSE

NoPick == [done |-> FALSE, result |-> NoBackend, allAlive |-> FALSE]

\* NewLoadBalancer, lines 66-122
BalancerStart ==
    /\ backendAlive = [b \in Backends |-> TRUE]
    /\ conns = [b \in Backends |-> 0]
    /\ current = 0
    /\ scan = NoScan
    /\ lbCalls = 0
    /\ picks = [c \in 1..MaxCalls |-> NoPick]

NoProxyCall == [pc |-> "idle", retryAttempts |-> RetryAttempts, backend |-> NoBackend,
                attempt |-> 0, sent |-> <<>>, failedAt |-> <<>>, lastErr |-> ""]

\* LoadConfig, middleware.go.old line 235: Backend.RetryAttempts = n
RetryStart(n) == px = [NoProxyCall EXCEPT !.retryAttempts = n]

NoProbe == [backend |-> NoBackend, res |-> 0, was |-> FALSE]
NoStats == [read |-> FALSE, backend_status |-> <<>>, alive |-> <<>>]

\* NewHealthChecker, load_balancer.go lines 251-258, and InitMetrics, metrics.go lines
\* 42-49: no probe has completed and BackendStatus is an empty map
HealthStart ==
    /\ hc = NoProbe
    /\ backendStatus = [b \in {} |-> FALSE]
    /\ stats = NoStats

\* got: an attempt of the call has received a response of the upstream
NoProxy == [pc |-> "idle", backend |-> NoBackend, attempt |-> 0, last |-> "", got |-> FALSE]

\* the background loops: cleanupRoutine of the limiter and of the cache, and Start of
\* the health checker
Loops == {"limiter", "cache", "health"}

\* a loop whose goroutine has not run yet: its stop channel is open, it has no ticker;
\* at: where the loop was when Stop was called
NewLoop == [pc |-> "new", stopped |-> FALSE, tick |-> FALSE, at |-> ""]

\* statuses of upstream responses: one of each class that proxyRequest relays
ResponseStatuses == {200, 404, 500}

\* no request is being proxied
MoreStart ==
    /\ calls = [p \in Callers |-> NoProxy]
    /\ loops = [l \in Loops |-> NewLoop]
    /\ probes = <<>>

\* NewCircuitBreaker, lines 34-43, and NewLoadBalancer, lines 66-122
PoolStart ==
    /\ BreakerStart(CBThreshold)
    /\ BalancerStart
    /\ RetryStart(RetryAttempts)
    /\ HealthStart
    /\ MoreStart

\* what a probe can end with: 0 stands for no response (the request could not be made,
\* the transport failed or HealthCheckTimeout expired), otherwise the status received
ProbeOutcomes == {0, 200, 204, 503}

\* checkBackend, load_balancer.go lines 321-340: the status that marks the backend up
MarksUp(res) == res = 200

\* checkBackend, load_balancer.go lines 291-341: a probe of backend b completes with res
checkBackend(b, res) ==
    /\ backendAlive' = [backendAlive EXCEPT ![b] = res # 0 /\ MarksUp(res)]
    /\ hc' = [backend |-> b, res |-> res, was |-> backendAlive[b]]
    /\ UNCHANGED <<now, limiterVars, cacheVars, cb, conns, current, callVars, lbVars, px,
                   backendStatus, stats, moreVars,
                   pipeVars>>

\* checkAll, load_balancer.go lines 284-288, called by Start at once and on every tick
\* (lines 266 and 270): a goroutine is started for the probe of every backend, whether
\* or not an earlier probe of the backend is still running; res = -1: still running
checkAll ==
    /\ Len(probes) < MaxRounds * NumBackends
    /\ probes' = probes \o [b \in 1..NumBackends |-> [backend |-> b - 1, res |-> -1]]
    /\ UNCHANGED <<now, limiterVars, cacheVars, cb, backendAlive, conns, current, callVars,
                   lbVars, px, healthVars, calls, loops, pipeVars>>

\* checkBackend, lines 291-341, run by the goroutine of the i-th probe started: the
\* probe ends with outcome res and sets the flag of its backend
ProbeCompletes(i, res) ==
    /\ i \in 1..Len(probes)
    /\ probes[i].res = -1
    /\ probes' = [probes EXCEPT ![i].res = res]
    /\ backendAlive' = [backendAlive EXCEPT ![probes[i].backend] = res # 0 /\ MarksUp(res)]
    /\ UNCHANGED <<now, limiterVars, cacheVars, cb, conns, current, callVars, lbVars, px,
                   healthVars, calls, loops, pipeVars>>

\* Metrics.GetStats, metrics.go lines 118-182: backend_status is a copy of BackendStatus
\* (lines 163-166); `alive` keeps the backends' flags at the time of the call
GetStats ==
    /\ stats' = [read |-> TRUE, backend_status |-> backendStatus, alive |-> backendAlive]
    /\ UNCHANGED <<now, limiterVars, cacheVars, cb, backendAlive, conns, current, callVars,
                   lbVars, px, hc, backendStatus, moreVars, pipeVars>>

isClientErrorAlways(err) == TRUE

\* isClientError, proxy.go lines 170-174
isClientError(err) == FALSE

\* proxyRequestWithRetry, proxy.go lines 57-65 and 77: called with the backend selected
\* for the request, it counts the connection and sends attempt 0
RetryBegin(b) ==
    /\ px.pc \in {"idle", "done"}
    /\ conns[b] < MaxConns
    /\ px' = [NoProxyCall EXCEPT !.retryAttempts = px.retryAttempts, !.pc = "sent",
                                 !.backend = b, !.sent = <<[backend |-> b, at |-> now]>>]
    /\ conns' = [conns EXCEPT ![b] = @ + 1]
    /\ UNCHANGED <<now, limiterVars, cacheVars, cb, backendAlive, current, callVars, lbVars,
                   healthVars, moreVars, pipeVars>>

\* proxyRequestWithRetry, proxy.go lines 77-80 and 62: the attempt did not fail
AttemptSucceeds ==
    /\ px.pc = "sent"
    /\ px' = [px EXCEPT !.pc = "done", !.lastErr = ""]
    /\ conns' = [conns EXCEPT ![px.backend] = @ - 1]
    /\ UNCHANGED <<now, limiterVars, cacheVars, cb, backendAlive, current, callVars, lbVars,
                   healthVars, moreVars, pipeVars>>

\* proxyRequestWithRetry, proxy.go lines 77-90 and 62: the attempt failed; the loop
\* goes on to the next attempt and its sleep while attempt < RetryAttempts
AttemptFails ==
    /\ px.pc = "sent"
    /\ LET f == [px EXCEPT !.lastErr = "transport", !.failedAt = Append(@, now)]
       IN  IF ~isClientError("transport") /\ px.attempt < px.retryAttempts
           THEN /\ px' = [f EXCEPT !.pc = "sleep", !.attempt = @ + 1]
                /\ UNCHANGED conns
           ELSE /\ px' = [f EXCEPT !.pc = "done"]
                /\ conns' = [conns EXCEPT ![px.backend] = @ - 1]
    /\ UNCHANGED <<now, limiterVars, cacheVars, cb, backendAlive, current, callVars, lbVars,
                   healthVars, moreVars, pipeVars>>

\* proxyRequestWithRetry, proxy.go lines 66-77: time.Sleep(RetryDelay * attempt) is
\* over and the attempt is sent
RetrySleepEnds ==
    /\ px.pc = "sleep"
    /\ now >= px.failedAt[Len(px.failedAt)] + RetryDelay * px.attempt
    /\ px' = [px EXCEPT !.pc = "sent", !.sent = Append(@, [backend |-> px.backend, at |-> now])]
    /\ UNCHANGED <<now, limiterVars, cacheVars, cb, backendAlive, conns, current, callVars,
                   lbVars, healthVars, moreVars, pipeVars>>

IsAliveAlways(b) == TRUE

\* Backend.IsAlive, lines 30-34
IsAlive(b) == backendAlive[b]

\* NextBackend of the three balancers up to the scan of the backends: the round-robin
\* balancer advances its counter (lines 126-134)
NextBackendBegin(st) ==
    /\ scan.pc # "scan"
    /\ lbCalls < MaxCalls
    /\ lbCalls' = lbCalls + 1
    /\ current' = IF st = "round-robin" /\ NumBackends # 0 THEN current + 1 ELSE current
    /\ scan' = [NoScan EXCEPT !.strategy = st,
                              !.pc = IF NumBackends = 0 THEN "done" ELSE "scan",
                              !.ctr = IF st = "round-robin" /\ NumBackends # 0
                                      THEN current' ELSE 0,
                              !.start = IF st = "round-robin" /\ NumBackends # 0
                                        THEN current' % NumBackends ELSE 0,
                              !.alive0 = backendAlive,
                              !.conns0 = IF st = "least-conn" THEN conns ELSE <<>>]
    /\ UNCHANGED <<now, limiterVars, cacheVars, cb, backendAlive, conns, callVars, picks, px,
                   healthVars, moreVars, pipeVars>>

FewerOrEqual(c, minConns) == minConns = -1 \/ c <= minConns

\* LeastConnectionBalancer.NextBackend, line 182: the test that replaces the backend held
Fewer(c, minConns) == minConns = -1 \/ c < minConns

\* the log of round-robin results once the call in s has returned
Logged(s) ==
    IF s.pc = "done" /\ s.strategy = "round-robin"
    THEN [picks EXCEPT ![s.ctr] = [done |-> TRUE, result |-> s.result,
                                   allAlive |-> s.stable /\ \A b \in Backends : s.alive0[b]]]
    ELSE picks

\* one turn of the loop over the backends: round robin returns the first backend it
\* reads alive (lines 136-143), least connection keeps the alive backend with fewer
\* connections than the one it holds (lines 173-186), random collects the alive ones
\* (lines 216-221)
NextBackendRead ==
    /\ scan.pc = "scan"
    /\ scan.i < NumBackends
    /\ LET b == (scan.start + scan.i) % NumBackends
           a == IsAlive(b)
           r == [scan EXCEPT !.i = @ + 1, !.stable = @ /\ backendAlive = scan.alive0,
                             !.steady = @ /\ (scan.strategy = "least-conn" => conns = scan.conns0)]
       IN  scan' = CASE ~a -> r
                     [] a /\ scan.strategy = "round-robin" ->
                            [r EXCEPT !.pc = "done", !.result = b, !.alive = <<b>>]
                     [] a /\ scan.strategy = "least-conn" ->
                            IF Fewer(conns[b], scan.minConns)
                            THEN [r EXCEPT !.selected = b, !.minConns = conns[b],
                                           !.alive = Append(@, b)]
                            ELSE [r EXCEPT !.alive = Append(@, b)]
                     [] OTHER -> [r EXCEPT !.alive = Append(@, b)]
    /\ picks' = Logged(scan')
    /\ UNCHANGED <<now, limiterVars, cacheVars, cb, backendAlive, conns, current, callVars,
                   lbCalls, px, healthVars, moreVars, pipeVars>>

\* the loop is over: round robin returns nil (line 145), least connection the backend
\* it holds (line 188), random nil or the alive backend at an index drawn from the clock
\* (lines 223-229)
NextBackendReturn ==
    /\ scan.pc = "scan"
    /\ scan.i = NumBackends
    /\ \E idx \in 0..(IF scan.alive = <<>> THEN 0 ELSE Len(scan.alive) - 1) :
          scan' = [scan EXCEPT
                     !.pc = "done",
                     !.stable = @ /\ backendAlive = scan.alive0,
                     !.steady = @ /\ (scan.strategy = "least-conn" => conns = scan.conns0),
                     !.result = CASE scan.strategy = "round-robin" -> NoBackend
                                  [] scan.strategy = "least-conn" -> scan.selected
                                  [] OTHER -> IF scan.alive = <<>> THEN NoBackend
                                              ELSE scan.alive[idx + 1]]
    /\ picks' = Logged(scan')
    /\ UNCHANGED <<now, limiterVars, cacheVars, cb, backendAlive, conns, current, callVars,
                   lbCalls, px, healthVars, moreVars, pipeVars>>

\* RoundRobinBalancer.NextBackend, lines 125-146, called by a concurrent request and
\* running from its first to its last step while the other callers are at rest
OtherNextBackend ==
    /\ lbCalls < MaxCalls
    /\ lbCalls' = lbCalls + 1
    /\ current' = current + 1
    /\ picks' = [picks EXCEPT ![current'] =
                    [done |-> TRUE, result |-> RoundRobinPick(current', backendAlive),
                     allAlive |-> \A b \in Backends : backendAlive[b]]]
    /\ UNCHANGED <<now, limiterVars, cacheVars, cb, backendAlive, conns, callVars, scan, px,
                   healthVars, moreVars, pipeVars>>

\* proxyRequestWithRetry, proxy.go line 61: a proxied request starts on backend b
IncrementConnections(b) ==
    /\ conns[b] < MaxConns
    /\ conns' = [conns EXCEPT ![b] = @ + 1]
    /\ UNCHANGED <<now, limiterVars, cacheVars, cb, backendAlive, current, sideVars, pipeVars>>

\* proxyRequestWithRetry, proxy.go line 62: a proxied request on backend b is over
DecrementConnections(b) ==
    /\ conns[b] > 0
    /\ conns' = [conns EXCEPT ![b] = @ - 1]
    /\ UNCHANGED <<now, limiterVars, cacheVars, cb, backendAlive, current, sideVars, pipeVars>>

ReleaseNever(c, b) == c

\* proxyRequestWithRetry, proxy.go line 62: the deferred DecrementConnections
Release(c, b) == [c EXCEPT ![b] = @ - 1]

\* ProxyMiddleware, proxy.go lines 24-36 and 38-49, then proxyRequestWithRetry, lines
\* 61-77, for request p: no backend or a closed gate is answered 503; otherwise the
\* connection is counted and attempt 0 is sent
ProxyBegin(p) ==
    /\ calls[p].pc = "idle"
    /\ current < MaxCalls
    /\ current' = current + 1
    /\ LET b == RoundRobinPick(current', backendAlive)
           g == beforeRequest(cb, now)
       IN  IF b = NoBackend
           THEN /\ calls' = [calls EXCEPT ![p] = [NoProxy EXCEPT !.last = "unavailable"]]
                /\ UNCHANGED <<cb, conns>>
           ELSE IF g.err # ""
           THEN /\ calls' = [calls EXCEPT ![p] = [NoProxy EXCEPT !.last = g.err, !.backend = b]]
                /\ cb' = g.cb
                /\ UNCHANGED conns
           ELSE /\ calls' = [calls EXCEPT ![p] = [pc |-> "sent", backend |-> b,
                                                  attempt |-> 0, last |-> "",
                                                  got |-> FALSE]]
                /\ cb' = g.cb
                /\ conns' = [conns EXCEPT ![b] = @ + 1]
    /\ UNCHANGED <<now, limiterVars, cacheVars, backendAlive, callVars, lbVars, px, healthVars,
                   bgVars, pipeVars>>

\* proxyRequest, lines 139-166, then proxyRequestWithRetry, lines 78-80 and 62, and
\* afterRequest: the upstream answered request p and the answer was streamed to the
\* client, whatever its status
ProxyResponds(p, status) ==
    /\ calls[p].pc = "sent"
    /\ calls' = [calls EXCEPT ![p] = [@ EXCEPT !.pc = "idle", !.last = "relayed",
                                                !.got = TRUE]]
    /\ conns' = Release(conns, calls[p].backend)
    /\ cb' = afterRequest(cb, FALSE, now)
    /\ UNCHANGED <<now, limiterVars, cacheVars, backendAlive, current, callVars, lbVars, px,
                   healthVars, bgVars, pipeVars>>

\* proxyRequest, lines 130-137, then proxyRequestWithRetry, lines 82-90 and 62: the
\* attempt of request p failed; after the last one the error goes to afterRequest
ProxyAttemptFails(p) ==
    /\ calls[p].pc = "sent"
    /\ IF calls[p].attempt < RetryAttempts
       THEN /\ calls' = [calls EXCEPT ![p] = [@ EXCEPT !.pc = "sleep", !.attempt = @ + 1]]
            /\ UNCHANGED <<cb, conns>>
       ELSE /\ calls' = [calls EXCEPT ![p] = [@ EXCEPT !.pc = "idle", !.last = "failed"]]
            /\ conns' = Release(conns, calls[p].backend)
            /\ cb' = afterRequest(cb, TRUE, now)
    /\ UNCHANGED <<now, limiterVars, cacheVars, backendAlive, current, callVars, lbVars, px,
                   healthVars, bgVars, pipeVars>>

\* proxyRequest, lines 139-158, then proxyRequestWithRetry, lines 82-90 and 62: the
\* upstream answered request p, its status was written to the client, and copying the
\* body failed; the error is returned and handled like that of a failed attempt
ProxyCopyFails(p, status) ==
    /\ calls[p].pc = "sent"
    /\ IF calls[p].attempt < RetryAttempts
       THEN /\ calls' = [calls EXCEPT ![p] = [@ EXCEPT !.pc = "sleep", !.attempt = @ + 1,
                                                     !.got = TRUE]]
            /\ UNCHANGED <<cb, conns>>
       ELSE /\ calls' = [calls EXCEPT ![p] = [@ EXCEPT !.pc = "idle", !.last = "failed",
                                                     !.got = TRUE]]
            /\ conns' = Release(conns, calls[p].backend)
            /\ cb' = afterRequest(cb, TRUE, now)
    /\ UNCHANGED <<now, limiterVars, cacheVars, backendAlive, current, callVars, lbVars, px,
                   healthVars, bgVars, pipeVars>>

\* proxyRequestWithRetry, lines 66-77: the sleep of request p is over, the attempt is sent
ProxyRetries(p) ==
    /\ calls[p].pc = "sleep"
    /\ calls' = [calls EXCEPT ![p] = [@ EXCEPT !.pc = "sent"]]
    /\ UNCHANGED <<now, limiterVars, cacheVars, cb, backendAlive, conns, current, callVars,
                   lbVars, px, healthVars, bgVars, pipeVars>>

\* the rest of the state, which the background loops leave alone in this model: the
\* effect of a round on the buckets, the cache and the flags is that of Cleanup,
\* CacheCleanup and checkBackend
LoopFrame ==
    UNCHANGED <<now, limiterVars, cacheVars, cb, backendAlive, conns, current, callVars, lbVars,
                px, healthVars, calls, probes, pipeVars>>

\* cleanupRoutine, ratelimiter.go lines 124-127 and 342-345, and Start, load_balancer.go
\* lines 261-266: the goroutine of loop l runs, makes its ticker and, in the health
\* checker, begins the first round at once
LoopStart(l) ==
    /\ loops[l].pc = "new"
    /\ loops' = [loops EXCEPT ![l].pc = IF l = "health" THEN "round" ELSE "select"]
    /\ LoopFrame

\* time.Ticker: a tick is put into the ticker's channel, which holds one tick
TickerFires(l) ==
    /\ loops[l].pc \in {"select", "round"}
    /\ ~loops[l].tick
    /\ loops' = [loops EXCEPT ![l].tick = TRUE]
    /\ LoopFrame

\* the select of the loop receives the tick and calls Cleanup or checkAll
LoopTakesTick(l) ==
    /\ loops[l].pc = "select"
    /\ loops[l].tick
    /\ loops' = [loops EXCEPT ![l].pc = "round", ![l].tick = FALSE]
    /\ LoopFrame

\* Cleanup or checkAll returns; checkAll has only started the probes' goroutines
RoundEnds(l) ==
    /\ loops[l].pc = "round"
    /\ loops' = [loops EXCEPT ![l].pc = "select"]
    /\ LoopFrame

\* the select of the loop finds the stop channel closed and the loop returns; the
\* deferred ticker.Stop ends the ticks
LoopReturns(l) ==
    /\ loops[l].pc = "select"
    /\ loops[l].stopped
    /\ loops' = [loops EXCEPT ![l].pc = "done", ![l].tick = FALSE]
    /\ LoopFrame

\* a signal that is lost unless the loop is waiting for it
closeWhenWaiting(lp) == IF lp.pc = "select" THEN [lp EXCEPT !.stopped = TRUE] ELSE lp

\* close of the stop channel, ratelimiter.go lines 141 and 359, load_balancer.go line
\* 280: from now on a receive from the channel is always ready
close(lp) == [lp EXCEPT !.stopped = TRUE]

\* Stop, ratelimiter.go lines 139-143 and 357-361, load_balancer.go lines 279-281:
\* the stop channel is closed, wherever the loop is
Stop(l) ==
    /\ loops[l].at = ""
    /\ loops' = [loops EXCEPT ![l] = [close(@) EXCEPT !.at = loops[l].pc]]
    /\ LoopFrame

\* ProxyMiddleware, proxy.go lines 33-51, up to the gate of Call (circuitbreaker.go lines
\* 46-53): a rejected call returns at once and the proxy answers 503; an admitted call
\* starts fn, which sends the request upstream
CallBegin(p) ==
    /\ cp[p].pc = "idle"
    /\ LET g == beforeRequest(cb, now)
           entering == cb.state = "Open" /\ g.cb.state = "HalfOpen"
       IN  /\ cb' = g.cb
           /\ cp' = [q \in Callers |->
                       IF q = p
                       THEN IF g.err # ""
                            THEN [pc |-> "idle", probe |-> FALSE, err |-> g.err,
                                  sent |-> 0, status |-> 503]
                            ELSE [pc |-> "fn", probe |-> g.cb.state = "HalfOpen", err |-> "",
                                  sent |-> 1, status |-> 0]
                       ELSE IF entering THEN [cp[q] EXCEPT !.probe = FALSE] ELSE cp[q]]
           /\ cbEv' = [kind |-> "gate", p |-> p, err |-> g.err, failed |-> FALSE,
                       state |-> cb.state]
    /\ UNCHANGED <<now, limiterVars, cacheVars, backendAlive, conns, current, streak,
                   recovered, lbVars, px, healthVars, moreVars, pipeVars>>

\* Call, circuitbreaker.go lines 55-62: fn returns and afterRequest records its result
CallEnd(p, failed) ==
    /\ cp[p].pc = "fn"
    /\ failed => ~recovered
    /\ cb' = afterRequest(cb, failed, now)
    /\ cp' = [cp EXCEPT ![p] = [pc |-> "idle", probe |-> FALSE,
                                 err |-> IF failed THEN "upstream" ELSE "",
                                 sent |-> 1, status |-> IF failed THEN 502 ELSE 200]]
    /\ streak' = IF cb.state = "Closed" THEN (IF failed THEN streak + 1 ELSE 0)
                 ELSE IF cb'.state = "Closed" THEN 0 ELSE streak
    /\ cbEv' = [kind |-> "record", p |-> p, err |-> "", failed |-> failed, state |-> cb.state]
    /\ UNCHANGED <<now, limiterVars, cacheVars, backendAlive, conns, current, recovered,
                   lbVars, px, healthVars, moreVars, pipeVars>>

ResetKeepsFailures(c) == [c EXCEPT !.state = "Closed", !.requests = 0]

\* Reset, circuitbreaker.go lines 163-174: the breaker after Reset
ResetResult(c) == [c EXCEPT !.state = "Closed", !.failures = 0, !.requests = 0]

\* Reset, circuitbreaker.go lines 163-174
Reset ==
    /\ cb' = ResetResult(cb)
    /\ streak' = 0
    /\ cbEv' = [kind |-> "reset", p |-> 0, err |-> "", failed |-> FALSE, state |-> cb.state]
    /\ UNCHANGED <<now, limiterVars, cacheVars, backendAlive, conns, current, cp, recovered,
                   lbVars, px, healthVars, moreVars, pipeVars>>

\* the upstream recovers: from now on every fn that returns succeeds
UpstreamRecovers ==
    /\ ~recovered
    /\ now + CBTimeout < MaxTime
    /\ recovered' = TRUE
    /\ UNCHANGED <<now, limiterVars, cacheVars, cb, backendAlive, conns, current, cp, streak,
                   cbEv, lbVars, px, healthVars, moreVars, pipeVars>>

----------------------------------------------------------------------------
(***************************************************************************)
(* Middleware pipeline (main and middleware.go).  One request is in the    *)
(* pipeline at a time.  It is served by the server's goroutine ("main")    *)
(* down to the Timeout stage and by the goroutine TimeoutMiddleware starts *)
(* ("inner") below it.  Steps of a goroutine take no time: the clock       *)
(* advances, and the 30 s deadline can fire, only while the inner          *)
(* goroutine waits for the upstream or sleeps between two attempts.        *)
(***************************************************************************)
\* a chain built with Authentication outside RateLimit
ChainAuthFirst ==
    <<"Recovery", "RequestID", "Logging", "Metrics", "SecurityHeaders", "CORS", "IPFilter",
      "RequestSizeLimit", "Timeout", "Compression", "Authentication", "RateLimit", "Cache",
      "Proxy", "Handler">>

\* buildMiddlewareChain, lines 172-216: the handlers from the outermost to the innermost
Chain ==
    <<"Recovery", "RequestID", "Logging", "Metrics", "SecurityHeaders", "CORS", "IPFilter",
      "RequestSizeLimit", "Timeout", "Compression", "RateLimit", "Authentication", "Cache",
      "Proxy", "Handler">>

\* main, lines 45-49
pathWhitelist == {"/api/v1/resource", "/health", "/metrics"}
\* LoadConfig: SecurityConfig of middleware.go.old, lines 197-206
APIKeys == {"default-api-key"}
EnableCORS == TRUE
IPWhitelist == {}

\* a lookup that finds no path in the whitelist
WhitelistedNever(path) == FALSE

\* whitelist[r.URL.Path], as the Authentication, Rate-limit, Cache and Proxy stages test it
Whitelisted(path) == path \in pathWhitelist

Methods == {"GET", "POST", "OPTIONS"}
Clients == {"ipA"}
Paths == {"/api/v1/resource", "/health", "/metrics", "/other"}
RequestKeys == {"", "default-api-key", "wrong-key"}
UpstreamStatuses == {200, 500}

NoMetrics == [total |-> 0, success |-> 0, error |-> 0, rateLimited |-> 0,
              cacheHits |-> 0, cacheMisses |-> 0]

NoReq == [method |-> "", path |-> "", apiKey |-> "", ip |-> "",
          main |-> "idle", inner |-> "none", depth |-> 0,
          entered |-> <<>>, short |-> "", writes |-> <<>>, outcome |-> "",
          timedOut |-> FALSE, panicked |-> "", attempt |-> 0, backend |-> NoBackend,
          cbCalls |-> 0, upstreamSent |-> 0, cachePending |-> "", denied |-> FALSE,
          m0 |-> NoMetrics, h0 |-> 1]

IndexOf(stage) == CHOOSE i \in 1..Len(Chain) : Chain[i] = stage

\* the request a stage holds carries RequestIDKey: RequestIDMiddleware, lines 64-66,
\* derives a new request, which only the stages inside it receive
HasRequestID(stage) == IndexOf("RequestID") < IndexOf(stage)

Entered(r, stage) == \E i \in 1..Len(r.entered) : r.entered[i] = stage

\* the goroutine that is running down the chain
Running(r) == IF r.inner = "down" THEN "inner" ELSE IF r.main = "down" THEN "main" ELSE "none"

At(stage) ==
    /\ ~crashed
    /\ Running(rq) # "none"
    /\ rq.depth <= Len(Chain)
    /\ Chain[rq.depth] = stage

\* some goroutine of the request can take a step without waiting
Runnable ==
    /\ ~crashed
    /\ (rq.main \in {"down", "ret"} \/ rq.inner \in {"down", "ret", "finished"})

\* next.ServeHTTP(w, r)
CallNext(r, stage) == [r EXCEPT !.entered = Append(@, stage), !.depth = @ + 1]

\* the handler of the running goroutine returns
Return(r) == IF r.inner = "down" THEN [r EXCEPT !.inner = "ret"] ELSE [r EXCEPT !.main = "ret"]

\* a stage returns without calling next
ShortCircuit(r, stage) == Return([r EXCEPT !.entered = Append(@, stage), !.short = stage])

\* WriteHeader(code) and Write(body) on the response; code 0 is a Write with no WriteHeader
Respond(r, stage, code, body, hdr) ==
    [r EXCEPT !.writes = Append(@, [by |-> stage, code |-> code, body |-> body, hdr |-> hdr])]

\* ResponseWriter.StatusCode(), lines 28-47, of a wrapper created by `stage`: the last
\* code the stages inside it passed to WriteHeader, 200 when there was none
StatusSeenBy(r, stage) ==
    LET idx == {i \in 1..Len(r.writes) :
                   r.writes[i].code # 0 /\ IndexOf(r.writes[i].by) > IndexOf(stage)}
    IN  IF idx = {} THEN 200
        ELSE r.writes[CHOOSE i \in idx : \A j \in idx : j <= i].code

RECURSIVE Bodies(_, _)
Bodies(ws, stage) ==
    IF ws = <<>> THEN ""
    ELSE (IF IndexOf(Head(ws).by) > IndexOf(stage) THEN Head(ws).body ELSE "")
         \o Bodies(Tail(ws), stage)

\* ResponseWriter.Body(), lines 40-51, of a wrapper created by `stage`: everything the
\* stages inside it wrote
BodySeenBy(r, stage) == Bodies(r.writes, stage)

\* the status line the client receives: net/http sends the first WriteHeader, and 200
\* when the first write is a Write or nothing was written
ClientStatus(r) ==
    IF r.writes = <<>> \/ r.writes[1].code = 0 THEN 200 ELSE r.writes[1].code

\* RecoveryMiddleware, lines 401-411: the deferred function, run for a panic that
\* unwinds the server's goroutine.  Its r is the request Recovery received; the type
\* assertion on a missing RequestIDKey panics again, and net/http then drops the
\* connection without a response.
Recover(r) ==
    IF HasRequestID("Recovery")
    THEN [Respond(r, "Recovery", 500, "Internal Server Error", {}) EXCEPT
            !.main = "idle", !.outcome = "responded"]
    ELSE [r EXCEPT !.main = "idle", !.outcome = "aborted"]

\* a panic raised in `stage`: in the goroutine of TimeoutMiddleware nothing recovers
\* it and the process dies; in the server's goroutine it unwinds to Recovery
PanicIn(r, stage) ==
    LET e == [r EXCEPT !.entered = Append(@, stage), !.panicked = stage]
    IN  IF Running(r) = "inner"
        THEN [e EXCEPT !.inner = "dead", !.outcome = "aborted"]
        ELSE IF Entered(r, "Recovery") THEN Recover(e)
        ELSE [e EXCEPT !.main = "idle", !.outcome = "aborted"]

Step(r) ==
    /\ rq' = r
    /\ crashed' = (r.inner = "dead")

\* r.Context().Value(RequestIDKey).(string) in `stage`, then the rest of the stage
WithRequestID(r, stage, rest) == IF HasRequestID(stage) THEN rest ELSE PanicIn(r, stage)

\* a request arrives
NewRequest(m, p, k, ip) ==
    /\ ~crashed
    /\ rq.main = "idle" /\ rq.inner = "none"
    /\ served < MaxServed
    /\ served' = served + 1
    /\ rq' = [NoReq EXCEPT !.method = m, !.path = p, !.apiKey = k, !.ip = ip,
                           !.main = "down", !.depth = 1, !.m0 = metrics,
                           !.h0 = healthy]
    /\ UNCHANGED <<now, limiterVars, cacheVars, poolVars, healthy, crashed, ipBlacklist, metrics>>

\* RecoveryMiddleware, lines 399-415
Recovery ==
    /\ At("Recovery")
    /\ Step(CallNext(rq, "Recovery"))
    /\ UNCHANGED <<now, limiterVars, cacheVars, poolVars, served, healthy, ipBlacklist, metrics>>

\* RequestIDMiddleware, lines 54-73
RequestID ==
    /\ At("RequestID")
    /\ Step(CallNext(rq, "RequestID"))
    /\ UNCHANGED <<now, limiterVars, cacheVars, poolVars, served, healthy, ipBlacklist, metrics>>

\* LoggingMiddlewareNew, lines 83-103
Logging ==
    /\ At("Logging")
    /\ Step(WithRequestID(rq, "Logging", CallNext(rq, "Logging")))
    /\ UNCHANGED <<now, limiterVars, cacheVars, poolVars, served, healthy, ipBlacklist, metrics>>

\* MetricsMiddleware, lines 122-127
Metrics ==
    /\ At("Metrics")
    /\ metrics' = [metrics EXCEPT !.total = @ + 1]
    /\ Step(CallNext(rq, "Metrics"))
    /\ UNCHANGED <<now, limiterVars, cacheVars, poolVars, served, healthy, ipBlacklist>>

\* SecurityHeadersMiddleware, lines 300-313
SecurityHeaders ==
    /\ At("SecurityHeaders")
    /\ Step(CallNext(rq, "SecurityHeaders"))
    /\ UNCHANGED <<now, limiterVars, cacheVars, poolVars, served, healthy, ipBlacklist, metrics>>

\* CORSMiddleware, lines 259-297
CORS ==
    /\ At("CORS")
    /\ Step(IF EnableCORS /\ rq.method = "OPTIONS"
            THEN ShortCircuit(Respond(rq, "CORS", 204, "", {}), "CORS")
            ELSE CallNext(rq, "CORS"))
    /\ UNCHANGED <<now, limiterVars, cacheVars, poolVars, served, healthy, ipBlacklist, metrics>>

\* IPFilterMiddleware, lines 316-358
IPFilter ==
    /\ At("IPFilter")
    /\ Step(IF rq.ip \in ipBlacklist \/ (IPWhitelist # {} /\ rq.ip \notin IPWhitelist)
            THEN WithRequestID(rq, "IPFilter",
                     ShortCircuit(Respond(rq, "IPFilter", 403, "Forbidden", {}), "IPFilter"))
            ELSE CallNext(rq, "IPFilter"))
    /\ UNCHANGED <<now, limiterVars, cacheVars, poolVars, served, healthy, ipBlacklist, metrics>>

\* RequestSizeLimitMiddleware, lines 361-368
RequestSizeLimit ==
    /\ At("RequestSizeLimit")
    /\ Step(CallNext(rq, "RequestSizeLimit"))
    /\ UNCHANGED <<now, limiterVars, cacheVars, poolVars, served, healthy, ipBlacklist, metrics>>

\* TimeoutMiddleware, lines 420-430: the handler goroutine is started and the
\* server's goroutine waits in the select
Timeout ==
    /\ At("Timeout")
    /\ Running(rq) = "main"
    /\ Step([CallNext(rq, "Timeout") EXCEPT !.main = "wait", !.inner = "down"])
    /\ UNCHANGED <<now, limiterVars, cacheVars, poolVars, served, healthy, ipBlacklist, metrics>>

\* TimeoutMiddleware, lines 435-443: the deadline fires before done is closed
TimeoutFires ==
    /\ ~crashed
    /\ rq.main = "wait"
    /\ rq.inner \in {"upstream", "sleep"}
    /\ Step(WithRequestID(rq, "Timeout",
               [Respond(rq, "Timeout", 408, "Request Timeout", {}) EXCEPT
                   !.main = "ret", !.timedOut = TRUE]))
    /\ UNCHANGED <<now, limiterVars, cacheVars, poolVars, served, healthy, ipBlacklist, metrics>>

\* TimeoutMiddleware, lines 432-434: done is closed
TimeoutDone ==
    /\ ~crashed
    /\ rq.main = "wait"
    /\ rq.inner = "finished"
    /\ Step([rq EXCEPT !.main = "ret", !.inner = "none"])
    /\ UNCHANGED <<now, limiterVars, cacheVars, poolVars, served, healthy, ipBlacklist, metrics>>

\* CompressionMiddleware, lines 371-387
Compression ==
    /\ At("Compression")
    /\ Step(CallNext(rq, "Compression"))
    /\ UNCHANGED <<now, limiterVars, cacheVars, poolVars, served, healthy, ipBlacklist, metrics>>

\* the response of a denied request without its Retry-After header
RateLimitedNoRetryAfter(r) ==
    ShortCircuit(Respond(r, "RateLimit", 429, "Too Many Requests",
                         {"X-RateLimit-Limit: 100", "X-RateLimit-Remaining: 0"}), "RateLimit")

\* RateLimitMiddlewareNew, lines 188-200: the response of a denied request
RateLimited(r) ==
    ShortCircuit(Respond(r, "RateLimit", 429, "Too Many Requests",
                         {"X-RateLimit-Limit: 100", "X-RateLimit-Remaining: 0",
                          "Retry-After: 1"}), "RateLimit")

\* RateLimitMiddlewareNew, lines 174-205.  limiter.Allow runs to its end inside the
\* stage; no other call of Allow is in progress while one request is in the pipeline.
RateLimit ==
    /\ At("RateLimit")
    /\ IF Whitelisted(rq.path)
       THEN /\ Step(CallNext(rq, "RateLimit"))
            /\ UNCHANGED <<limiterVars, metrics>>
       ELSE LET key == LimiterKey(rq.ip)
                exists == buckets[key] # 0
                id == IF exists THEN buckets[key] ELSE FreeId(heap)
                old == IF exists THEN heap[id] ELSE [tokens |-> burst, lastCheck |-> now]
                new == TakeToken(old, now)
                ok == HasToken(Refill(old, now))
                e0 == IF exists THEN ep[key] ELSE [t0 |-> now, n |-> 0, g |-> 0]
            IN  /\ buckets' = [buckets EXCEPT ![key] = id]
                /\ heap' = [heap EXCEPT ![id] = new]
                /\ ep' = [ep EXCEPT ![key] = [t0 |-> e0.t0, n |-> e0.n + 1,
                                              g |-> e0.g + (IF ok THEN 1 ELSE 0)]]
                /\ lastTake' = [key |-> key, before |-> old.tokens,
                                elapsed |-> now - old.lastCheck, after |-> new.tokens,
                                ok |-> ok]
                /\ UNCHANGED <<perIP, apc, rlCalls, grants>>
                /\ IF ok
                   THEN /\ Step(CallNext(rq, "RateLimit"))
                        /\ UNCHANGED metrics
                   ELSE /\ metrics' = [metrics EXCEPT !.rateLimited = @ + 1]
                        /\ Step(WithRequestID([rq EXCEPT !.denied = TRUE], "RateLimit",
                                    RateLimited([rq EXCEPT !.denied = TRUE])))
    /\ UNCHANGED <<now, cacheVars, poolVars, served, healthy, ipBlacklist>>

\* a key test that accepts every non-empty key
AnyKey(k) == k # ""

\* AuthenticationMiddlewareNew, lines 140-143 and 157: the key is accepted
ValidKey(k) == k # "" /\ k \in APIKeys

\* AuthenticationMiddlewareNew, lines 138-171
Authentication ==
    /\ At("Authentication")
    /\ Step(IF Whitelisted(rq.path) \/ ValidKey(rq.apiKey)
            THEN CallNext(rq, "Authentication")
            ELSE WithRequestID(rq, "Authentication",
                     ShortCircuit(Respond(rq, "Authentication", 403, "Forbidden", {}),
                                  "Authentication")))
    /\ UNCHANGED <<now, limiterVars, cacheVars, poolVars, served, healthy, ipBlacklist, metrics>>

\* CacheMiddlewareNew, line 222
CacheKey(r) == r.method \o ":" \o r.path

\* CacheMiddlewareNew, lines 208-246: up to the call of next
CacheStage ==
    /\ At("Cache")
    /\ IF rq.method # "GET" \/ ~Whitelisted(rq.path)
       THEN /\ Step(CallNext(rq, "Cache"))
            /\ UNCHANGED <<cacheVars, metrics>>
       ELSE LET g == GetResult(TheCache, CacheKey(rq), now)
            IN  /\ SetCache(g.cache)
                /\ Track(g.cache, "Get", CacheKey(rq), "", g.found)
                /\ cacheRes' = [op |-> "Get", key |-> CacheKey(rq), found |-> g.found,
                                value |-> g.value,
                                evicted |-> IF items[CacheKey(rq)] # 0
                                               /\ g.cache.items[CacheKey(rq)] = 0
                                            THEN CacheKey(rq) ELSE ""]
                /\ IF g.found
                   THEN /\ metrics' = [metrics EXCEPT !.cacheHits = @ + 1]
                        /\ Step(WithRequestID(rq, "Cache",
                                    ShortCircuit(Respond(rq, "Cache", 0, g.value,
                                                         {"X-Cache: HIT"}), "Cache")))
                   ELSE /\ metrics' = [metrics EXCEPT !.cacheMisses = @ + 1]
                        /\ Step([CallNext(rq, "Cache") EXCEPT !.cachePending = CacheKey(rq)])
    /\ UNCHANGED <<now, limiterVars, poolVars, served, healthy, ipBlacklist>>

\* ProxyMiddleware, lines 11-54, with Call, lines 46-54, and proxyRequestWithRetry,
\* lines 57-62: up to the first upstream request
Proxy ==
    /\ At("Proxy")
    /\ IF Whitelisted(rq.path)
       THEN /\ Step(CallNext(rq, "Proxy"))
            /\ UNCHANGED poolVars
       ELSE LET b == RoundRobinPick(current + 1, backendAlive)
                gate == beforeRequest(cb, now)
                e == [rq EXCEPT !.entered = Append(@, "Proxy")]
            IN  /\ current' = current + 1
                /\ UNCHANGED <<backendAlive, sideVars>>
                /\ IF b = NoBackend
                   THEN /\ Step(ShortCircuit(Respond(rq, "Proxy", 503, "Service Unavailable", {}),
                                             "Proxy"))
                        /\ UNCHANGED <<cb, conns>>
                   ELSE IF gate.err # ""
                   THEN /\ Step(ShortCircuit(Respond([rq EXCEPT !.backend = b, !.cbCalls = @ + 1],
                                                     "Proxy", 503, "Service Unavailable", {}),
                                             "Proxy"))
                        /\ cb' = gate.cb
                        /\ UNCHANGED conns
                   ELSE /\ Step([e EXCEPT !.backend = b, !.cbCalls = @ + 1, !.attempt = 0,
                                          !.upstreamSent = @ + 1, !.inner = "upstream"])
                        /\ cb' = gate.cb
                        /\ conns' = [conns EXCEPT ![b] = @ + 1]
    /\ UNCHANGED <<now, limiterVars, cacheVars, served, healthy, ipBlacklist, metrics>>

\* proxyRequest, lines 139-166, then proxyRequestWithRetry, lines 62 and 78-80, and
\* afterRequest: the upstream answered and its status is relayed
UpstreamResponds(status) ==
    /\ ~crashed
    /\ rq.inner = "upstream"
    /\ Step([Respond(rq, "Proxy", status, "upstream", {}) EXCEPT !.inner = "ret"])
    /\ cb' = afterRequest(cb, FALSE, now)
    /\ conns' = [conns EXCEPT ![rq.backend] = @ - 1]
    /\ UNCHANGED <<now, limiterVars, cacheVars, backendAlive, current, sideVars, served, healthy,
                   ipBlacklist, metrics>>

\* proxyRequest, lines 130-137, then proxyRequestWithRetry, lines 65-90: the transport
\* failed (also when the request's context is cancelled); 502 is written on every attempt
UpstreamFails ==
    /\ ~crashed
    /\ rq.inner = "upstream"
    /\ LET w == Respond(rq, "Proxy", 502, "Bad Gateway", {})
       IN  IF rq.attempt < RetryAttempts
           THEN /\ Step([w EXCEPT !.attempt = @ + 1, !.inner = "sleep"])
                /\ UNCHANGED <<cb, conns>>
           ELSE /\ Step([w EXCEPT !.inner = "ret"])
                /\ cb' = afterRequest(cb, TRUE, now)
                /\ conns' = [conns EXCEPT ![rq.backend] = @ - 1]
    /\ UNCHANGED <<now, limiterVars, cacheVars, backendAlive, current, sideVars, served, healthy,
                   ipBlacklist, metrics>>

\* proxyRequestWithRetry, lines 66-77: the retry delay is over, the next attempt is sent
RetrySleepDone ==
    /\ ~crashed
    /\ rq.inner = "sleep"
    /\ Step([rq EXCEPT !.inner = "upstream", !.upstreamSent = @ + 1])
    /\ UNCHANGED <<now, limiterVars, cacheVars, poolVars, served, healthy, ipBlacklist, metrics>>

\* the mux of main, lines 38-42, with ResourceHandler and HealthCheckHandler
Handler ==
    /\ At("Handler")
    /\ LET e == [rq EXCEPT !.entered = Append(@, "Handler")]
       IN  Step(Return(
             CASE rq.path = "/api/v1/resource" ->
                    IF rq.method # "GET"
                    THEN Respond(e, "Handler", 405, "Method not allowed", {})
                    ELSE Respond(e, "Handler", 0, "resource", {})
               [] rq.path = "/health" ->
                    IF healthy = 1
                    THEN Respond(e, "Handler", 200, "OK", {})
                    ELSE Respond(e, "Handler", 503, "", {})
               [] OTHER -> Respond(e, "Handler", 404, "404 page not found", {})))
    /\ UNCHANGED <<now, limiterVars, cacheVars, poolVars, served, healthy, ipBlacklist, metrics>>

\* a stage deeper than Recovery panics
StagePanics ==
    /\ \E stage \in {Chain[i] : i \in 1..Len(Chain)} \ {"Recovery"} :
          /\ At(stage)
          /\ Step(PanicIn(rq, stage))
    /\ UNCHANGED <<now, limiterVars, cacheVars, poolVars, served, healthy, ipBlacklist, metrics>>

\* a cache stage that stores the captured body whatever the status
StoresAnyResponse(status) == TRUE

\* CacheMiddlewareNew, line 250: the response is stored
StoresResponse(status) == status = 200

\* CacheMiddlewareNew, lines 248-254, as the handlers of the inner goroutine return,
\* then close(done), line 429
InnerFinish ==
    /\ ~crashed
    /\ rq.inner = "ret"
    /\ IF rq.cachePending # "" /\ StoresResponse(StatusSeenBy(rq, "Cache"))
       THEN LET c == SetResult(TheCache, rq.cachePending, BodySeenBy(rq, "Cache"), now)
                gone == {k \in CacheKeys : items[k] # 0 /\ c.items[k] = 0}
            IN  /\ SetCache(c)
                /\ Track(c, "Set", rq.cachePending, BodySeenBy(rq, "Cache"), FALSE)
                /\ cacheRes' = [op |-> "Set", key |-> rq.cachePending,
                                found |-> items[rq.cachePending] # 0,
                                value |-> BodySeenBy(rq, "Cache"),
                                evicted |-> IF gone = {} THEN "" ELSE CHOOSE k \in gone : TRUE]
       ELSE UNCHANGED cacheVars
    /\ Step([rq EXCEPT !.inner = IF rq.main = "wait" THEN "finished" ELSE "none"])
    /\ UNCHANGED <<now, limiterVars, poolVars, served, healthy, ipBlacklist, metrics>>

\* MetricsMiddleware, lines 128-133, as the handlers of the server's goroutine return
MainFinish ==
    /\ ~crashed
    /\ rq.main = "ret"
    /\ metrics' = IF ~Entered(rq, "Metrics") THEN metrics
                  ELSE IF StatusSeenBy(rq, "Metrics") >= 200 /\ StatusSeenBy(rq, "Metrics") < 400
                  THEN [metrics EXCEPT !.success = @ + 1]
                  ELSE [metrics EXCEPT !.error = @ + 1]
    /\ Step([rq EXCEPT !.main = "idle", !.outcome = "responded"])
    /\ UNCHANGED <<now, limiterVars, cacheVars, poolVars, served, healthy, ipBlacklist>>

\* checkBackend, lines 291-341: a probe changes the backend's Alive flag
ProbeResult(b, ok) ==
    /\ ~crashed
    /\ backendAlive[b] # ok
    /\ backendAlive' = [backendAlive EXCEPT ![b] = ok]
    /\ UNCHANGED <<now, limiterVars, cacheVars, cb, conns, current, sideVars, pipeVars>>

\* main, line 129: shutdown begins
BeginShutdown ==
    /\ ~crashed
    /\ healthy = 1
    /\ healthy' = 0
    /\ UNCHANGED <<now, limiterVars, cacheVars, poolVars, rq, served, crashed, ipBlacklist, metrics>>

\* the state after main has built the pipeline
PipeStart ==
    /\ rq = NoReq
    /\ served = 0
    /\ healthy = 1
    /\ crashed = FALSE
    /\ metrics = NoMetrics

\* the passage of time
Tick ==
    /\ now < MaxTime
    /\ now' = now + 1
    /\ UNCHANGED <<limiterVars, cacheVars, poolVars, pipeVars>>

\* NewRateLimiter, lines 31-48
LimiterStart ==
    /\ buckets = [k \in Keys |-> 0]
    /\ heap = [id \in BucketIds |-> NoBucket]
    /\ apc = [p \in Procs |-> IdleProc]
    /\ rlCalls = 0
    /\ ep = [k \in Keys |-> NoEpisode]
    /\ lastTake = NoTake
    /\ grants = [k \in Keys |-> <<>>]

LimiterInit ==
    /\ now = 0
    /\ perIP \in BOOLEAN
    /\ LimiterStart
    /\ CacheStart
    /\ PoolStart
    /\ PipeStart
    /\ ipBlacklist = {}

LimiterNext ==
    \/ \E p \in Procs, k \in ClientIPs : AllowBegin(p, k)
    \/ \E p \in Procs : AllowCreate(p)
    \/ \E p \in Procs : AllowTake(p)
    \/ Cleanup
    \/ Tick

SpecLimiter == LimiterInit /\ [][LimiterNext]_vars

\* concurrent calls of Allow while no Cleanup runs
AllowNext ==
    \/ \E p \in Procs, k \in ClientIPs : AllowBegin(p, k)
    \/ \E p \in Procs : AllowCreate(p)
    \/ \E p \in Procs : AllowTake(p)
    \/ Tick

SpecAllow == LimiterInit /\ [][AllowNext]_vars

CacheInit ==
    /\ now = 0
    /\ perIP = TRUE
    /\ LimiterStart
    /\ CacheStart
    /\ PoolStart
    /\ PipeStart
    /\ ipBlacklist = {}

CacheNext ==
    \/ \E k \in CacheKeys : Get(k)
    \/ \E k \in CacheKeys, v \in CacheValues : Set(k, v)
    \/ \E k \in CacheKeys : Delete(k)
    \/ Clear
    \/ CacheCleanup
    \/ Tick

SpecCache == CacheInit /\ [][CacheNext]_vars

BreakerInit ==
    /\ now = 0
    /\ perIP = TRUE
    /\ LimiterStart
    /\ CacheStart
    /\ \E T \in {CBThreshold, CBThreshold + 1} : BreakerStart(T)
    /\ BalancerStart
    /\ RetryStart(RetryAttempts)
    /\ HealthStart
    /\ MoreStart
    /\ PipeStart
    /\ ipBlacklist = {}

BreakerNext ==
    \/ \E p \in Callers : CallBegin(p)
    \/ \E p \in Callers, failed \in BOOLEAN : CallEnd(p, failed)
    \/ UpstreamRecovers
    \/ Tick

SpecBreaker == BreakerInit /\ [][BreakerNext]_vars

\* every admitted call returns, time keeps advancing and calls keep arriving
BreakerFairness ==
    /\ \A p \in Callers : WF_vars(CallBegin(p))
    /\ \A p \in Callers : WF_vars(\E failed \in BOOLEAN : CallEnd(p, failed))
    /\ WF_vars(Tick)

SpecBreakerLive == SpecBreaker /\ BreakerFairness

BreakerResetNext ==
    \/ \E p \in Callers : CallBegin(p)
    \/ \E p \in Callers, failed \in BOOLEAN : CallEnd(p, failed)
    \/ Reset
    \/ Tick

SpecBreakerReset == BreakerInit /\ [][BreakerResetNext]_vars

BalancerInit ==
    /\ now = 0
    /\ perIP = TRUE
    /\ LimiterStart
    /\ CacheStart
    /\ PoolStart
    /\ PipeStart
    /\ ipBlacklist = {}

BalancerNext ==
    \/ \E st \in Strategies : NextBackendBegin(st)
    \/ NextBackendRead
    \/ NextBackendReturn
    \/ \E b \in Backends, ok \in BOOLEAN : ProbeResult(b, ok)
    \/ \E b \in Backends : IncrementConnections(b)
    \/ \E b \in Backends : DecrementConnections(b)

SpecBalancer == BalancerInit /\ [][BalancerNext]_vars

RoundRobinNext ==
    \/ NextBackendBegin("round-robin")
    \/ NextBackendRead
    \/ NextBackendReturn
    \/ OtherNextBackend
    \/ \E b \in Backends, ok \in BOOLEAN : ProbeResult(b, ok)

SpecRoundRobin == BalancerInit /\ [][RoundRobinNext]_vars

\* a probe result that leaves at least one backend alive
ProbeKeepsOneAlive(b, ok) ==
    /\ ProbeResult(b, ok)
    /\ \E c \in Backends : backendAlive'[c]

\* NextBackend calls while the flags change one at a time and never all backends
\* are down
SomeAliveNext ==
    \/ \E st \in Strategies : NextBackendBegin(st)
    \/ NextBackendRead
    \/ NextBackendReturn
    \/ \E b \in Backends, ok \in BOOLEAN : ProbeKeepsOneAlive(b, ok)

SpecSomeAlive == BalancerInit /\ [][SomeAliveNext]_vars

ProxyCallsNext ==
    \/ \E p \in Callers : ProxyBegin(p)
    \/ \E p \in Callers, st \in ResponseStatuses : ProxyResponds(p, st)
    \/ \E p \in Callers, st \in ResponseStatuses : ProxyCopyFails(p, st)
    \/ \E p \in Callers : ProxyAttemptFails(p)
    \/ \E p \in Callers : ProxyRetries(p)
    \/ Tick

SpecProxyCalls == BalancerInit /\ [][ProxyCallsNext]_vars

\* the background loops and their Stop
LoopsNext ==
    \/ \E l \in Loops : LoopStart(l)
    \/ \E l \in Loops : TickerFires(l)
    \/ \E l \in Loops : LoopTakesTick(l)
    \/ \E l \in Loops : RoundEnds(l)
    \/ \E l \in Loops : LoopReturns(l)
    \/ \E l \in Loops : Stop(l)

SpecLoops == BalancerInit /\ [][LoopsNext]_vars

\* the goroutine of a loop is scheduled, and a round ends: Cleanup waits only for
\* locks that are held briefly and checkAll does not wait at all; a select with several
\* ready cases picks one at random (uniformly), so a stop channel that is closed
\* whenever the loop selects is picked in the end
LoopsFairness ==
    \A l \in Loops :
        /\ WF_vars(LoopStart(l))
        /\ WF_vars(RoundEnds(l))
        /\ SF_vars(LoopReturns(l))

SpecLoopsLive == SpecLoops /\ LoopsFairness

RetryInit ==
    /\ now = 0
    /\ perIP = TRUE
    /\ LimiterStart
    /\ CacheStart
    /\ BreakerStart(CBThreshold)
    /\ BalancerStart
    /\ \E n \in {RetryAttempts, RetryAttempts + 1} : RetryStart(n)
    /\ HealthStart
    /\ MoreStart
    /\ PipeStart
    /\ ipBlacklist = {}

RetryNext ==
    \/ \E b \in Backends : RetryBegin(b)
    \/ AttemptSucceeds
    \/ AttemptFails
    \/ RetrySleepEnds
    \/ \E b \in Backends, ok \in BOOLEAN : ProbeResult(b, ok)
    \/ Tick

SpecRetry == RetryInit /\ [][RetryNext]_vars

HealthNext ==
    \/ \E b \in Backends, res \in ProbeOutcomes : checkBackend(b, res)
    \/ GetStats
    \/ OtherNextBackend

SpecHealth == BalancerInit /\ [][HealthNext]_vars

\* the rounds of the health checker with the probes they start
ProbesNext ==
    \/ checkAll
    \/ \E i \in 1..(MaxRounds * NumBackends), res \in ProbeOutcomes : ProbeCompletes(i, res)

SpecProbes == BalancerInit /\ [][ProbesNext]_vars

\* time passes while no goroutine of the request can take a step
ClockTick ==
    /\ now < MaxClock
    /\ ~Runnable
    /\ now' = now + 1
    /\ UNCHANGED <<limiterVars, cacheVars, poolVars, pipeVars>>

Init ==
    /\ now = 0
    /\ perIP = TRUE
    /\ LimiterStart
    /\ CacheStart
    /\ PoolStart
    /\ PipeStart
    /\ ipBlacklist \in {{}, {"ipA"}}

Next ==
    \/ \E m \in Methods, p \in Paths, k \in RequestKeys, ip \in Clients : NewRequest(m, p, k, ip)
    \/ Recovery
    \/ RequestID
    \/ Logging
    \/ Metrics
    \/ SecurityHeaders
    \/ CORS
    \/ IPFilter
    \/ RequestSizeLimit
    \/ Timeout
    \/ TimeoutFires
    \/ TimeoutDone
    \/ Compression
    \/ RateLimit
    \/ Authentication
    \/ CacheStage
    \/ Proxy
    \/ \E st \in UpstreamStatuses : UpstreamResponds(st)
    \/ UpstreamFails
    \/ RetrySleepDone
    \/ Handler
    \/ StagePanics
    \/ InnerFinish
    \/ MainFinish
    \/ \E b \in Backends, ok \in BOOLEAN : ProbeResult(b, ok)
    \/ BeginShutdown
    \/ ClockTick

Spec == Init /\ [][Next]_vars


----------------------------------------------------------------------------
(***************************************************************************)
(* Properties of the pipeline                                              *)
(***************************************************************************)
StageOrder ==
    <<"Recovery", "RequestID", "Logging", "Metrics", "SecurityHeaders", "CORS", "IPFilter",
      "RequestSizeLimit", "Timeout", "Compression", "RateLimit", "Authentication", "Cache",
      "Proxy", "Handler">>

InnerStages == {"Authentication", "Cache", "Proxy", "Handler"}

\* the codes passed to WriteHeader for the request, in the order they were written
StatusWrites(r) == SelectSeq([i \in 1..Len(r.writes) |-> r.writes[i].code], LAMBDA c : c # 0)

NoUpstreamWork(r) == r.backend = NoBackend /\ r.cbCalls = 0 /\ r.upstreamSent = 0

\* C1: the stages a request has entered are always the first stages of the order
\* Recovery, Request-ID, Logging, Metrics, Security headers, CORS, IP filter,
\* Request-size limit, Timeout, Compression, Rate limit, Authentication, Cache, Proxy,
\* Handler, each once; a stage that short-circuited the request is the last one entered;
\* and a step enters at most one more stage.
C1_StagesInOrder ==
    /\ [](/\ Len(rq.entered) <= Len(StageOrder)
          /\ \A i \in 1..Len(rq.entered) : rq.entered[i] = StageOrder[i]
          /\ rq.short # "" => (rq.entered # <<>> /\ rq.entered[Len(rq.entered)] = rq.short))
    /\ [][\/ rq'.entered = rq.entered
          \/ rq'.entered = <<>>
          \/ (rq.short = "" /\ Len(rq'.entered) = Len(rq.entered) + 1
              /\ SubSeq(rq'.entered, 1, Len(rq.entered)) = rq.entered)]_vars

C1_Witness ==
    /\ rq.entered = StageOrder
    /\ rq.outcome = "responded"

\* C2: when a stage deeper than Recovery has panicked, the client receives 500 and the
\* process is still there to serve later requests.
C2_PanicAnswered500 ==
    rq.panicked # "" =>
        /\ rq.outcome = "responded"
        /\ ClientStatus(rq) = 500
        /\ ~crashed

\* C3: when the deadline fired, the only status written for the request is the 408 and
\* nothing is written after it; and no request has more than one status written.
C3_SingleStatusOnTimeout ==
    /\ rq.timedOut =>
          /\ StatusWrites(rq) = <<408>>
          /\ rq.writes[Len(rq.writes)].by = "Timeout"
    /\ Len(StatusWrites(rq)) <= 1

\* C4: once a request to a non-whitelisted path has reached Authentication with a key
\* that is empty or not configured, Cache and Proxy are not entered, no backend is
\* selected, the breaker is not called, nothing is sent upstream, and the response is
\* 403 Forbidden.
C4_AuthGate ==
    (/\ rq.path \notin pathWhitelist
     /\ Entered(rq, "Authentication")
     /\ ~(rq.apiKey # "" /\ rq.apiKey \in APIKeys)) =>
        /\ ~Entered(rq, "Cache") /\ ~Entered(rq, "Proxy") /\ ~Entered(rq, "Handler")
        /\ NoUpstreamWork(rq)
        /\ rq.panicked = "" =>
              /\ Len(rq.writes) = 1
              /\ rq.writes[1].by = "Authentication"
              /\ rq.writes[1].code = 403
              /\ rq.writes[1].body = "Forbidden"
        /\ rq.outcome = "responded" => ClientStatus(rq) = 403

C4_Witness ==
    /\ rq.path \notin pathWhitelist
    /\ rq.apiKey = "wrong-key"
    /\ rq.short = "Authentication"
    /\ rq.outcome = "responded"
    /\ ClientStatus(rq) = 403

\* C5: under the default configuration, a GET /api/v1/resource without X-API-Key is
\* answered 403, nothing is sent upstream and the error counter grows by one.
C5_ResourceWithoutKeyForbidden ==
    (/\ ipBlacklist = {}
     /\ rq.method = "GET" /\ rq.path = "/api/v1/resource" /\ rq.apiKey = ""
     /\ rq.panicked = ""
     /\ rq.outcome = "responded") =>
        /\ ClientStatus(rq) = 403
        /\ NoUpstreamWork(rq)
        /\ metrics.error = rq.m0.error + 1

InFlight == rq.main # "idle" \/ rq.inner # "none"

\* no bucket is created and no bucket that stays loses a token
NoTokenTaken ==
    /\ \A k \in Keys : buckets'[k] \in {0, buckets[k]}
    /\ \A id \in BucketIds : heap'[id] \in {NoBucket, heap[id]}

WhitelistedBypass ==
    rq.path \in pathWhitelist =>
        /\ \A i \in 1..Len(rq.writes) : rq.writes[i].by \notin {"RateLimit", "Authentication", "Proxy"}
        /\ rq.short \notin {"RateLimit", "Authentication", "Proxy"}
        /\ ~rq.denied
        /\ rq.outcome = "responded" => ClientStatus(rq) \notin {403, 429} \/ rq.short = "IPFilter"
        /\ NoUpstreamWork(rq)

AnsweredByCacheOrHandler ==
    /\ rq.writes # <<>>
    /\ \A i \in 1..Len(rq.writes) : rq.writes[i].by \in {"Cache", "Handler"}

\* C6: a request to a whitelisted path is never rejected by Authentication, never
\* takes a limiter token or gets 429, never causes a backend selection, a breaker call
\* or an upstream request; and, unless a stage outside the Rate-limit stage answered
\* it (the CORS preflight, the IP filter) or a stage panicked, it is answered by the
\* cache or by the terminal handler.
C6_WhitelistedBypass ==
    /\ [](/\ WhitelistedBypass
          /\ (/\ rq.path \in pathWhitelist
              /\ rq.outcome = "responded"
              /\ rq.panicked = ""
              /\ rq.short \notin {"CORS", "IPFilter"}) => AnsweredByCacheOrHandler)
    /\ [][(rq.path \in pathWhitelist /\ InFlight) => NoTokenTaken]_vars

C6_Witness ==
    /\ rq.path = "/api/v1/resource"
    /\ rq.apiKey = "wrong-key"
    /\ rq.outcome = "responded"
    /\ Entered(rq, "Handler")
    /\ ClientStatus(rq) = 200

\* C6 as stated: every answered request to a whitelisted path is answered by the cache
\* or by the terminal handler.
C6_AlwaysCacheOrHandler ==
    (/\ rq.path \in pathWhitelist
     /\ rq.outcome = "responded"
     /\ rq.panicked = "") => AnsweredByCacheOrHandler

\* C7: when the limiter denied the request, the path is not whitelisted, the only write
\* is the Rate-limit stage's 429 Too Many Requests with Retry-After: 1 and
\* X-RateLimit-Remaining: 0, the rate-limited counter has grown by one, and
\* Authentication, Cache, Proxy and Handler are not entered, whatever the key.
C7_DeniedGets429 ==
    rq.denied =>
        /\ rq.path \notin pathWhitelist
        /\ Len(rq.writes) = 1
        /\ rq.writes[1].by = "RateLimit"
        /\ rq.writes[1].code = 429
        /\ rq.writes[1].body = "Too Many Requests"
        /\ {"Retry-After: 1", "X-RateLimit-Remaining: 0"} \subseteq rq.writes[1].hdr
        /\ metrics.rateLimited = rq.m0.rateLimited + 1
        /\ \A st \in InnerStages : ~Entered(rq, st)
        /\ NoUpstreamWork(rq)
        /\ ~lastTake.ok
        /\ rq.outcome = "responded" => ClientStatus(rq) = 429

C7_Witness ==
    /\ rq.denied
    /\ rq.apiKey = "wrong-key"
    /\ rq.outcome = "responded"
    /\ ClientStatus(rq) = 429

----------------------------------------------------------------------------
(***************************************************************************)
(* Claims about the limiter, checked under SpecLimiter.                    *)
(***************************************************************************)
LiveBuckets == {id \in BucketIds : heap[id] # NoBucket}

TokensInRange == \A id \in LiveBuckets : 0 <= heap[id].tokens /\ heap[id].tokens <= burst

LastCheckMonotone ==
    \A id \in BucketIds :
        (heap[id] # NoBucket /\ heap'[id] # NoBucket) => heap'[id].lastCheck >= heap[id].lastCheck

\* C8: under every interleaving of Allow and Cleanup calls, every bucket
\* object (also one Cleanup has removed from the map while a call still
\* holds it) has 0 <= tokens <= burst, and no step lowers a bucket's lastCheck.
C8_TokensWithinBurst == []TokensInRange /\ [][LastCheckMonotone]_vars

\* a bucket that was refilled after its creation and then drained to less
\* than one token, after Cleanup has removed another bucket
C8_Witness ==
    \E id \in LiveBuckets :
        /\ heap[id].lastCheck > IdleLimit
        /\ heap[id].tokens < TokenUnit
        /\ lastTake.elapsed > 0

\* the window since the creation of the bucket of key k is too short to
\* accumulate one token
InWindow(k) == buckets[k] # 0 /\ (now - ep[k].t0) * RatePerTick < TokenUnit

\* C9: the calls served by a bucket created for a key with no prior bucket,
\* while less than 1/rate has passed since its creation, are granted exactly
\* until burst of them were granted (burst+1 calls: burst true, one false);
\* and every call returns true exactly when min(burst, tokens + elapsed*rate)
\* is at least one token, and then leaves that balance minus one token.
C9_BurstThenDeny ==
    /\ \A k \in Keys : InWindow(k) => ep[k].g = Min(ep[k].n, BurstSize)
    /\ lastTake # NoTake =>
          LET refilled == Min(burst, lastTake.before + lastTake.elapsed * RatePerTick)
          IN  /\ lastTake.ok = (refilled >= TokenUnit)
              /\ lastTake.after = IF lastTake.ok THEN refilled - TokenUnit ELSE refilled

\* burst+1 calls inside the window: burst granted and the last one denied
C9_Witness ==
    \E k \in Keys :
        /\ InWindow(k)
        /\ ep[k].n = BurstSize + 1
        /\ ep[k].g = BurstSize
        /\ lastTake.key = k /\ ~lastTake.ok

MappedKeys == {k \in Keys : buckets[k] # 0}

\* C34: while no Cleanup runs, concurrent calls of Allow for a key without a bucket
\* create one bucket for the key: every call that has passed the lookup holds the
\* bucket of the map, no second bucket object exists for a key, and the calls
\* together are granted at most burst times while less than 1/rate has passed since
\* the creation; without perIP the only bucket is that of 'global'
C34_OneBucketPerKey ==
    /\ \A p \in Procs : apc[p].pc = "take" =>
          buckets[apc[p].key] # 0 /\ apc[p].b = buckets[apc[p].key]
    /\ Cardinality(LiveBuckets) = Cardinality(MappedKeys)
    /\ \A k \in MappedKeys : InWindow(k) => ep[k].g <= BurstSize
    /\ \A k \in Keys : Len(grants[k]) = BurstSize + 1 =>
          (grants[k][BurstSize + 1] - grants[k][1]) * RatePerTick >= TokenUnit
    /\ ~perIP => MappedKeys \subseteq {"global"}

\* two calls for one key both found no bucket in the first lookup; one has created
\* the bucket and been granted, the other is about to look again
C34_Witness ==
    \E p \in Procs :
        /\ apc[p].pc = "create"
        /\ buckets[apc[p].key] # 0
        /\ ep[apc[p].key].g = BurstSize
        /\ Cardinality(LiveBuckets) = 1

\* the keys whose bucket leaves the map in this step
Dropped == {k \in MappedKeys : buckets'[k] = 0}

\* C35: a Cleanup takes out of the map exactly the buckets whose lastCheck lies more
\* than the idle limit (five minutes) before the time of the Cleanup, and every other
\* bucket stays in the map with its tokens and its lastCheck
C35_CleanupRemovesIdle ==
    [][Dropped # {} =>
          \A k \in MappedKeys :
              IF now - heap[buckets[k]].lastCheck > IdleLimit
              THEN buckets'[k] = 0
              ELSE buckets'[k] = buckets[k] /\ heap'[buckets[k]] = heap[buckets[k]]]_vars

\* a Cleanup has removed the bucket of a key that had been granted a request, and the
\* bucket of another key, in use before the Cleanup, is still in the map
C35_Witness ==
    \E k, j \in Keys :
        /\ grants[k] # <<>> /\ buckets[k] = 0
        /\ buckets[j] # 0 /\ heap[buckets[j]].lastCheck <= IdleLimit

\* the call of process p takes its token in this step
Takes(p) == apc[p].pc = "take" /\ apc'[p].pc = "idle"

\* C37: under every interleaving of Allow calls with Cleanup, a call takes its token
\* from the bucket the map holds for its key at that moment, so that the grants of a
\* key are counted in one bucket: any burst + 1 grants of a key span at least 1/rate
C37_TokenFromMappedBucket ==
    /\ [](\A k \in Keys : Len(grants[k]) = BurstSize + 1 =>
              (grants[k][BurstSize + 1] - grants[k][1]) * RatePerTick >= TokenUnit)
    /\ [][\A p \in Procs : Takes(p) => apc[p].b = buckets[apc[p].key]]_vars

----------------------------------------------------------------------------
(***************************************************************************)
(* Claims about the cache, checked under SpecCache.                        *)
(***************************************************************************)
IndexKeys == {k \in CacheKeys : items[k] # 0}
ListKeys == {entries[evictList[i]].key : i \in 1..Len(evictList)}

\* C10: after every sequence of Get, Set, Delete, Clear and Cleanup the keys
\* of the index are the keys of the list nodes, each key is held by exactly
\* one node (the node its index entry points to), and the list holds at most
\* maxSize nodes.
C10_IndexMatchesList ==
    /\ IndexKeys = ListKeys
    /\ Cardinality(ListKeys) = Len(evictList)
    /\ \A k \in IndexKeys : \E i \in 1..Len(evictList) :
          evictList[i] = items[k] /\ entries[items[k]].key = k
    /\ Len(evictList) <= CacheMaxSize

\* a Set of a new key into a full cache has evicted a node and the cache is full again
C10_Witness ==
    /\ cacheRes.op = "Set" /\ cacheRes.evicted # ""
    /\ Len(evictList) = CacheMaxSize
    /\ \E e \in SeqToSet(evictList) : Expired(entries[e], now)

\* a step of Get(k) and of Set(k, cacheRes'.value) in the cache specification
GetStep(k) == now' = now /\ cacheRes'.op = "Get" /\ cacheRes'.key = k
SetStep(k) == now' = now /\ cacheRes'.op = "Set" /\ cacheRes'.key = k

Removed == {j \in CacheKeys : items[j] # 0 /\ items'[j] = 0}

\* C11: a Get of a key whose entry has expireTime before the current time reports a
\* miss and takes the entry out of the index and out of the list, leaving the other
\* entries; a Get of a key whose entry has not expired returns its bytes, moves its
\* node to the front and removes nothing; a Get of an absent key is a miss.
C11_GetHonoursExpiry ==
    [][\A k \in CacheKeys : GetStep(k) =>
          LET e == items[k]
          IN  IF e = 0
              THEN ~cacheRes'.found /\ UNCHANGED <<items, evictList, entries>>
              ELSE IF entries[e].expireTime < now
              THEN /\ ~cacheRes'.found
                   /\ items'[k] = 0
                   /\ \A j \in CacheKeys \ {k} : items'[j] = items[j]
                   /\ evictList' = SelectSeq(evictList, LAMBDA x : x # e)
                   /\ \A i \in 1..Len(evictList') : entries'[evictList'[i]].key # k
              ELSE /\ cacheRes'.found
                   /\ cacheRes'.value = entries[e].value
                   /\ evictList' = <<e>> \o SelectSeq(evictList, LAMBDA x : x # e)
                   /\ UNCHANGED <<items, entries>>]_vars

\* a Get has found its key expired and removed it
C11_Witness ==
    /\ cacheRes.op = "Get"
    /\ cacheRes.key # ""
    /\ cacheRes.evicted = cacheRes.key
    /\ ~cacheRes.found
    /\ items[cacheRes.key] = 0

\* C12: a Set(k, v) leaves k cached with value v and expireTime now + TTL, without
\* changing the size when k was cached before; and a Get(k) made within the TTL of the
\* last Set(k, v), while k has stayed in the cache since, returns (v, true).
C12_SetThenGet ==
    [][\A k \in CacheKeys :
          /\ SetStep(k) =>
                /\ items'[k] # 0
                /\ entries'[items'[k]] = [key |-> k, value |-> cacheRes'.value,
                                          expireTime |-> now + CacheTTL]
                /\ items[k] # 0 => Len(evictList') = Len(evictList)
          /\ (GetStep(k) /\ lastSet[k] # NoSet /\ now <= lastSet[k].at + CacheTTL) =>
                /\ cacheRes'.found
                /\ cacheRes'.value = lastSet[k].v]_vars

\* a Get returns the value of a Set that replaced another value, some time after it
C12_Witness ==
    /\ cacheRes.op = "Get"
    /\ cacheRes.found
    /\ cacheRes.key # ""
    /\ lastSet[cacheRes.key].replaced
    /\ lastSet[cacheRes.key].v = cacheRes.value
    /\ now > lastSet[cacheRes.key].at

\* C13: a Set of a new key into a cache holding maxSize entries removes exactly one
\* entry, the one Set or successfully read longest ago, and the cache holds maxSize
\* entries again with the new key among them; any other Set removes nothing.
C13_EvictsLeastRecentlyUsed ==
    [][\A k \in CacheKeys : SetStep(k) =>
          IF items[k] = 0 /\ Len(evictList) = CacheMaxSize
          THEN /\ Removed = {recency[Len(recency)]}
               /\ Len(evictList') = CacheMaxSize
               /\ items'[k] # 0
          ELSE Removed = {}]_vars

\* a Set has evicted a key that was Set after the key it kept: a Get had refreshed
\* the older one
C13_Witness ==
    /\ cacheRes.op = "Set" /\ cacheRes.evicted # ""
    /\ Len(evictList) = CacheMaxSize
    /\ recency[1] = cacheRes.key
    /\ \E k \in CacheKeys \ {cacheRes.key} :
          /\ items[k] # 0
          /\ lastSet[k].at < now
          /\ lastSet[k].at < lastSet[cacheRes.key].at

Cacheable(r) == r.method = "GET" /\ r.path \in pathWhitelist

\* the status the stages inside the Cache stage produced: that of the last write
InnerStatus(r) ==
    IF r.writes = <<>> \/ r.writes[Len(r.writes)].code = 0 THEN 200
    ELSE r.writes[Len(r.writes)].code

Times(seq, x) == Cardinality({i \in 1..Len(seq) : seq[i] = x})

\* the Cache stage acts on the request and does not panic
CacheStageStep ==
    /\ At("Cache")
    /\ rq'.entered = Append(rq.entered, "Cache")
    /\ rq'.panicked = ""

\* the handlers of the inner goroutine have returned
InnerReturnStep == rq.inner = "ret" /\ rq'.inner # "ret"

\* C14: in the Cache stage a GET to a whitelisted path whose key METHOD:URL is cached
\* and unexpired is answered with the stored bytes and X-Cache: HIT, no inner stage is
\* entered and cache_hits grows by one; on a miss cache_misses grows by one, the inner
\* stages run once, and when they return the captured body is stored exactly when the
\* inner status is 200; a request that is not a GET or not whitelisted leaves the
\* cache and both counters as they are.
C14_CacheStage ==
    /\ [](/\ rq.short = "Cache" =>
                /\ Cacheable(rq)
                /\ ~Entered(rq, "Proxy") /\ ~Entered(rq, "Handler")
                /\ metrics.cacheHits = rq.m0.cacheHits + 1
                /\ metrics.cacheMisses = rq.m0.cacheMisses
          /\ rq.cachePending # "" =>
                /\ Cacheable(rq)
                /\ metrics.cacheMisses = rq.m0.cacheMisses + 1
                /\ metrics.cacheHits = rq.m0.cacheHits
                /\ (rq.outcome = "responded" /\ rq.panicked = "") =>
                      Times(rq.entered, "Proxy") = 1 /\ Times(rq.entered, "Handler") = 1
          /\ (InFlight /\ ~Cacheable(rq)) =>
                /\ metrics.cacheHits = rq.m0.cacheHits
                /\ metrics.cacheMisses = rq.m0.cacheMisses)
    /\ [][/\ CacheStageStep =>
                LET k == rq.method \o ":" \o rq.path
                IN  IF Cacheable(rq) /\ items[k] # 0 /\ entries[items[k]].expireTime >= now
                    THEN /\ rq'.short = "Cache"
                         /\ rq'.writes = <<[by |-> "Cache", code |-> 0,
                                            body |-> entries[items[k]].value,
                                            hdr |-> {"X-Cache: HIT"}]>>
                    ELSE /\ rq'.short = ""
                         /\ rq'.depth = rq.depth + 1
                         /\ rq'.writes = rq.writes
                         /\ (rq'.cachePending # "") = Cacheable(rq)
          /\ (InnerReturnStep /\ rq.cachePending # "") =>
                LET k == rq.method \o ":" \o rq.path
                IN  IF InnerStatus(rq) = 200
                    THEN /\ items'[k] # 0
                         /\ entries'[items'[k]].value = rq.writes[Len(rq.writes)].body
                    ELSE UNCHANGED <<items, evictList, entries>>
          /\ (InFlight /\ ~Cacheable(rq)) => UNCHANGED <<items, evictList, entries>>]_vars

\* the second GET /api/v1/resource is answered from the cache
C14_Witness ==
    /\ rq.short = "Cache"
    /\ rq.outcome = "responded"
    /\ rq.path = "/api/v1/resource"
    /\ rq.writes[1].body = "resource"
    /\ ClientStatus(rq) = 200
    /\ metrics.cacheHits = 1 /\ metrics.cacheMisses = 1

\* C15: a GET /health that arrived while the healthy flag was 0 is answered 503, and
\* one answered while the flag is still 1 is answered 200 OK.
C15_HealthFollowsFlag ==
    (/\ rq.method = "GET" /\ rq.path = "/health"
     /\ rq.outcome = "responded"
     /\ rq.panicked = ""
     /\ rq.short # "IPFilter") =>
        /\ rq.h0 = 0 => ClientStatus(rq) = 503
        /\ healthy = 1 => (ClientStatus(rq) = 200 /\ rq.writes[1].body = "OK")

----------------------------------------------------------------------------
(***************************************************************************)
(* Circuit breaker                                                         *)
(***************************************************************************)
\* a call passes the gate (beforeRequest) / a call's result is recorded (afterRequest)
GateStep == cbEv'.kind = "gate" /\ cp' # cp
RecordStep == cbEv'.kind = "record" /\ cp' # cp
WithinTimeout == now - cb.lastFailTime <= CBTimeout

\* C16: while Closed the failure counter is the number of consecutive failed calls
\* recorded, which stays below the threshold; a recorded result opens the breaker
\* exactly when it is the threshold-th consecutive failure; a recorded success resets
\* the counter; and a call that meets the breaker Open before the timeout has elapsed
\* gets ErrCircuitOpen
C16_OpensAtThreshold ==
    /\ [](cb.state = "Closed" => cb.failures = streak /\ streak < cb.threshold)
    /\ [][/\ (RecordStep /\ cb.state = "Closed") =>
               /\ (cb'.state = "Open") <=> (cbEv'.failed /\ streak + 1 = cb.threshold)
               /\ cb'.state \in {"Closed", "Open"}
               /\ ~cbEv'.failed => cb'.failures = 0
               /\ cbEv'.failed => cb'.failures = cb.failures + 1
          /\ (GateStep /\ cb.state = "Open" /\ WithinTimeout) =>
               cbEv'.err = "ErrCircuitOpen"]_vars

\* the breaker has just opened on the second consecutive failure
C16_Witness ==
    /\ cbEv.kind = "record" /\ cbEv.failed /\ cbEv.state = "Closed"
    /\ cb.state = "Open" /\ cb.threshold = CBThreshold + 1 /\ streak = cb.threshold

\* C17: a call that meets the breaker Open no later than the timeout after the last
\* recorded failure gets ErrCircuitOpen, fn is not executed, the breaker is left as it
\* was and the proxy answers 503 without a request upstream; a call that meets it Open
\* after the timeout is admitted, fn is executed, and the breaker becomes HalfOpen
\* with the probe counter at 0
C17_OpenRejectsUntilTimeout ==
    [][(GateStep /\ cb.state = "Open") =>
          LET c == cp'[cbEv'.p]
          IN  IF WithinTimeout
              THEN /\ cbEv'.err = "ErrCircuitOpen" /\ c.err = "ErrCircuitOpen"
                   /\ c.pc = "idle" /\ c.sent = 0 /\ c.status = 503
                   /\ cb' = cb
              ELSE /\ cbEv'.err = "" /\ c.pc = "fn" /\ c.sent = 1
                   /\ cb'.state = "HalfOpen" /\ cb'.requests = 0
                   /\ cb'.failures = cb.failures /\ cb'.lastFailTime = cb.lastFailTime]_vars

\* one caller was turned away with ErrCircuitOpen and 503, and after the timeout another
\* call has just been admitted and made the breaker HalfOpen
C17_Witness ==
    /\ cbEv.kind = "gate" /\ cbEv.state = "Open" /\ cbEv.err = ""
    /\ cb.state = "HalfOpen" /\ cp[cbEv.p].pc = "fn"
    /\ \E q \in Callers : cp[q].err = "ErrCircuitOpen" /\ cp[q].status = 503 /\ cp[q].sent = 0

\* calls admitted since the breaker became HalfOpen whose result is not yet recorded
ProbesInFlight == {p \in Callers : cp[p].pc = "fn" /\ cp[p].probe}

\* C18: while HalfOpen, the calls admitted since the breaker became HalfOpen (the call
\* that made it HalfOpen included) and not yet recorded are never more than MaxRequests
C18_ProbesBounded ==
    cb.state = "HalfOpen" => Cardinality(ProbesInFlight) <= CBMaxRequests

\* C19: once the upstream has recovered, with every admitted call returning, time
\* advancing and calls arriving, a breaker that is Open or HalfOpen becomes Closed
C19_EventuallyCloses == (recovered /\ cb.state # "Closed") ~> (cb.state = "Closed")

\* after the recovery a successful probe has just closed the HalfOpen breaker
C19_Witness ==
    /\ recovered /\ cb.state = "Closed"
    /\ cbEv.kind = "record" /\ ~cbEv.failed /\ cbEv.state = "HalfOpen"

\* C28: every change of the breaker's state is Closed to Open at a recorded failure that
\* brings failures to the threshold, Open to HalfOpen at the admission of a call after
\* the timeout, HalfOpen to Open at a recorded failure, or HalfOpen to Closed at a
\* recorded success with failures back at 0; and a success recorded while Open changes
\* nothing
C28_StateTable ==
    [][/\ cb'.state # cb.state =>
            \/ /\ cb.state = "Closed" /\ cb'.state = "Open"
               /\ RecordStep /\ cbEv'.failed /\ cb'.failures >= cb.threshold
            \/ /\ cb.state = "Open" /\ cb'.state = "HalfOpen"
               /\ GateStep /\ cbEv'.err = "" /\ ~WithinTimeout
            \/ /\ cb.state = "HalfOpen" /\ cb'.state = "Open"
               /\ RecordStep /\ cbEv'.failed
            \/ /\ cb.state = "HalfOpen" /\ cb'.state = "Closed"
               /\ RecordStep /\ ~cbEv'.failed /\ cb'.failures = 0
       /\ (RecordStep /\ cb.state = "Open" /\ ~cbEv'.failed) => cb' = cb]_vars

\* a probe has failed and sent the HalfOpen breaker back to Open
C28_Witness ==
    /\ cbEv.kind = "record" /\ cbEv.failed /\ cbEv.state = "HalfOpen"
    /\ cb.state = "Open" /\ cb.failures > cb.threshold

\* C29: whatever the interleaving of concurrent calls and Reset, a Closed breaker has
\* fewer failures than its threshold
C29_ClosedBelowThreshold == cb.state = "Closed" => cb.failures < cb.threshold

\* Reset has just closed an Open breaker while an admitted call is still running
C29_Witness ==
    /\ cbEv.kind = "reset" /\ cbEv.state = "Open" /\ cb.state = "Closed"
    /\ \E p \in Callers : cp[p].pc = "fn"

\* the result of the call of p is recorded in this step
Records(p) == cp[p].pc = "fn" /\ cp'[p].pc = "idle"

\* C39: the breaker leaves HalfOpen only when the result of a call admitted as a probe
\* in the current HalfOpen episode (the call that started the episode included) is
\* recorded; the late result of a call admitted while the breaker was Closed neither
\* closes nor re-opens a HalfOpen breaker
C39_OnlyProbesLeaveHalfOpen ==
    [][(cb.state = "HalfOpen" /\ cb'.state # "HalfOpen") =>
          \E p \in Callers : Records(p) /\ cp[p].probe]_vars

----------------------------------------------------------------------------
(***************************************************************************)
(* Load balancer                                                           *)
(***************************************************************************)
AliveAtCall == {b \in Backends : scan.alive0[b]}
ReadAlive == {scan.alive[k] : k \in 1..Len(scan.alive)}

\* C20: for each strategy a finished NextBackend call has returned nil or a backend it
\* read alive during the call; when no flag changed during the call it has returned nil
\* exactly when no backend is alive, and the alive backend when there is exactly one
C20_ReturnsAliveBackend ==
    scan.pc = "done" =>
        /\ scan.result = NoBackend \/ scan.result \in ReadAlive
        /\ scan.stable =>
              /\ (scan.result = NoBackend) <=> (AliveAtCall = {})
              /\ \A b \in Backends : AliveAtCall = {b} => scan.result = b

\* a least-connection call made with only the second backend alive has returned it
C20_Witness ==
    /\ scan.pc = "done" /\ scan.strategy = "least-conn" /\ scan.stable
    /\ AliveAtCall = {1} /\ scan.result = 1

\* C30: the round-robin counter is the number of NextBackend calls made, whatever they
\* returned and however they interleave; a finished call during which no flag changed
\* has returned the first alive backend at or after index counter mod N in cyclic
\* order, nil when there is none; and any N calls that drew consecutive counter values
\* with all backends alive have returned N different backends
C30_RoundRobinOrder ==
    /\ current = lbCalls
    /\ (scan.pc = "done" /\ scan.stable) =>
          \/ scan.result = NoBackend /\ \A b \in Backends : ~scan.alive0[b]
          \/ \E k \in 0..(NumBackends - 1) :
                /\ scan.result = (scan.ctr + k) % NumBackends
                /\ scan.alive0[scan.result]
                /\ \A j \in 0..(k - 1) : ~scan.alive0[(scan.ctr + j) % NumBackends]
    /\ \A c \in 1..(MaxCalls - NumBackends + 1) :
          (\A j \in 0..(NumBackends - 1) : picks[c + j].done /\ picks[c + j].allAlive) =>
              {picks[c + j].result : j \in 0..(NumBackends - 1)} = Backends

\* two calls that drew consecutive counter values, one of them read flag by flag, have
\* returned with every backend alive
C30_Witness ==
    /\ scan.pc = "done" /\ scan.stable /\ scan.ctr < current
    /\ picks[scan.ctr].done /\ picks[scan.ctr].allAlive
    /\ picks[scan.ctr + 1].done /\ picks[scan.ctr + 1].allAlive

\* C31: a finished least-connection call during which neither a flag nor a connection
\* count changed has returned nil when no backend is alive, and otherwise the alive
\* backend with the fewest connections, the first of them in pool order
C31_LeastConnections ==
    (scan.pc = "done" /\ scan.strategy = "least-conn" /\ scan.stable /\ scan.steady) =>
        IF AliveAtCall = {} THEN scan.result = NoBackend
        ELSE /\ scan.result \in AliveAtCall
             /\ \A b \in AliveAtCall :
                   /\ scan.conns0[scan.result] <= scan.conns0[b]
                   /\ scan.conns0[b] = scan.conns0[scan.result] => scan.result <= b

\* with both backends alive and as many connections on each the first was returned
C31_Witness ==
    /\ scan.pc = "done" /\ scan.strategy = "least-conn" /\ scan.stable /\ scan.steady
    /\ AliveAtCall = Backends /\ scan.result = 0
    /\ \A b \in Backends : scan.conns0[b] = MaxConns

SomeAlive == \E b \in Backends : backendAlive[b]

\* C38: a NextBackend call during which at every moment at least one backend is
\* alive returns a backend, also when flags change during the scan (under
\* SpecSomeAlive some backend is alive in every state)
C38_ReturnsBackendWhenSomeAlive ==
    /\ SomeAlive
    /\ scan.pc = "done" => scan.result # NoBackend

----------------------------------------------------------------------------
(***************************************************************************)
(* Proxy stage                                                             *)
(***************************************************************************)
\* the Proxy stage takes its step for the request
ProxyStep ==
    At("Proxy") /\ rq'.entered = Append(rq.entered, "Proxy") /\ rq'.panicked = rq.panicked
NoneAlive == \A b \in Backends : ~backendAlive[b]

\* C21: when no backend is alive the Proxy stage answers a request to a path outside
\* the whitelist with 503 'Service Unavailable' and nothing else: the breaker is not
\* called and keeps its state and counters, nothing is sent upstream, and no backend's
\* connection count changes
C21_NoBackendAnswers503 ==
    [][(ProxyStep /\ ~Whitelisted(rq.path) /\ NoneAlive) =>
          /\ rq'.writes = Append(rq.writes, [by |-> "Proxy", code |-> 503,
                                             body |-> "Service Unavailable", hdr |-> {}])
          /\ rq'.short = "Proxy"
          /\ cb' = cb /\ rq'.cbCalls = rq.cbCalls
          /\ rq'.upstreamSent = rq.upstreamSent /\ rq'.backend = NoBackend
          /\ conns' = conns]_vars

\* the Proxy stage has answered 503 with every backend down
C21_Witness ==
    /\ NoneAlive /\ rq.short = "Proxy" /\ NoUpstreamWork(rq)
    /\ rq.writes # <<>> /\ rq.writes[Len(rq.writes)].code = 503
    /\ rq.writes[Len(rq.writes)].by = "Proxy"

\* C22: a call of proxyRequestWithRetry sends at most RetryAttempts + 1 requests, all
\* to the backend it was given; it sends nothing after an attempt that did not fail;
\* when every attempt failed it has sent exactly RetryAttempts + 1 requests; and
\* attempt i > 0 is sent no earlier than RetryDelay * i after attempt i - 1 failed
C22_RetryBudget ==
    /\ Len(px.sent) <= px.retryAttempts + 1
    /\ \A i \in 1..Len(px.sent) : px.sent[i].backend = px.backend
    /\ px.pc = "done" =>
          IF px.lastErr = ""
          THEN Len(px.sent) = Len(px.failedAt) + 1
          ELSE Len(px.sent) = px.retryAttempts + 1 /\ Len(px.failedAt) = Len(px.sent)
    /\ \A i \in 2..Len(px.sent) :
          px.sent[i].at >= px.failedAt[i - 1] + RetryDelay * (i - 1)

\* a call whose three attempts all failed is over
C22_Witness ==
    /\ px.pc = "done" /\ px.lastErr # "" /\ px.retryAttempts = RetryAttempts + 1
    /\ Len(px.sent) = px.retryAttempts + 1

\* what the Proxy stage wrote to the response of the request
ProxyWrites(r) == SelectSeq(r.writes, LAMBDA w : w.by = "Proxy")
RelayedUpstream(r) ==
    ProxyWrites(r) # <<>> /\ ProxyWrites(r)[Len(ProxyWrites(r))].body = "upstream"

\* C23: the Proxy stage has written 502 'Bad Gateway' only when all RetryAttempts + 1
\* attempts have failed, and when an attempt succeeded the upstream's response is all
\* it has written, with one status for the request
C23_RetriesAbsorbFailures ==
    /\ (\E i \in 1..Len(ProxyWrites(rq)) : ProxyWrites(rq)[i].code = 502) =>
          /\ rq.upstreamSent = RetryAttempts + 1
          /\ \A i \in 1..Len(ProxyWrites(rq)) : ProxyWrites(rq)[i].code = 502
          /\ Len(ProxyWrites(rq)) = RetryAttempts + 1
    /\ RelayedUpstream(rq) =>
          /\ Len(ProxyWrites(rq)) = 1
          /\ ~rq.timedOut => Len(StatusWrites(rq)) = 1

\* the last attempt of the proxy call fails and proxyRequestWithRetry returns the error
ProxyCallFails ==
    /\ rq.inner = "upstream" /\ rq'.inner = "ret"
    /\ rq'.writes # rq.writes /\ rq'.writes[Len(rq'.writes)].code = 502

\* C25: when a proxy call to a backend fails, all its attempts having failed, the
\* backend's alive flag becomes false
C25_FailedCallMarksDown ==
    [][ProxyCallFails => ~backendAlive'[rq.backend]]_vars

\* C26: a request that has returned through the Metrics stage has added one to
\* total_requests and one to exactly one of success_requests and error_requests, and
\* to success_requests exactly when the status the client received is in 200..399
C26_MetricsClassifyClientStatus ==
    (rq.outcome = "responded" /\ Entered(rq, "Metrics") /\ rq.panicked = "") =>
        /\ metrics.total = rq.m0.total + 1
        /\ (metrics.success - rq.m0.success) + (metrics.error - rq.m0.error) = 1
        /\ metrics.success = rq.m0.success + 1 <=>
              (ClientStatus(rq) >= 200 /\ ClientStatus(rq) < 400)

\* the requests whose retry loop is running against backend b
Executing(b) == {p \in Callers : calls[p].pc \in {"sent", "sleep"} /\ calls[p].backend = b}

\* request p is turned away by the breaker in this step
Rejected(p) ==
    calls'[p] # calls[p] /\ calls'[p].last \in {"ErrCircuitOpen", "ErrTooManyRequests"}

\* C32: each backend's connection count is the number of requests whose retry loop is
\* running against it, sleeps included, so it is never negative and is 0 when no
\* request is in flight; and a call the breaker rejects leaves the counts unchanged
C32_InflightCount ==
    /\ [](\A b \in Backends : conns[b] = Cardinality(Executing(b)))
    /\ [][\A p \in Callers : Rejected(p) => conns' = conns]_vars

\* two requests are in flight on one backend, one of them sleeping before its retry,
\* and a third request has been rejected by the open breaker
C32_Witness ==
    \E b \in Backends :
        /\ conns[b] = 2
        /\ \E p \in Executing(b) : calls[p].pc = "sleep"
        /\ \E q \in Callers : calls[q].last = "ErrCircuitOpen"

----------------------------------------------------------------------------
\* an attempt of request p receives a response of the upstream in this step
ReceivesResponse(p) == ~calls[p].got /\ calls'[p].got
\* the retry loop of request p ends in this step with the error of its last attempt
CallFails(p) == calls[p].pc = "sent" /\ calls'[p].pc = "idle" /\ calls'[p].last = "failed"

\* C33: an attempt that receives a response of the upstream, whatever its status, ends
\* the retry loop: the response is relayed, no further attempt is made and the breaker
\* records a success; and a request whose attempts all failed is recorded by the
\* breaker as one failure
C33_ResponseEndsRetries ==
    [][\A p \in Callers :
          /\ ReceivesResponse(p) =>
                /\ calls'[p].pc = "idle" /\ calls'[p].last = "relayed"
                /\ cb' = onSuccess(cb)
          /\ calls'[p].pc \in {"sent", "sleep"} => ~calls'[p].got
          /\ CallFails(p) =>
                /\ calls[p].attempt = RetryAttempts
                /\ cb'.failures = cb.failures + 1]_vars

\* the probes of backend b, by their place in the order of start
ProbesOf(b) == {i \in 1..Len(probes) : probes[i].backend = b}
\* the probe of backend b that was started last
Newest(b) == CHOOSE i \in ProbesOf(b) : \A j \in ProbesOf(b) : j <= i

\* C40: when probes of one backend from different rounds overlap, then once every
\* probe started has completed, the alive flag of the backend is the outcome of the
\* probe that was started last: an older probe that ends late does not overwrite it
C40_NewestProbeWins ==
    \A b \in Backends :
        (ProbesOf(b) # {} /\ \A i \in ProbesOf(b) : probes[i].res # -1) =>
            backendAlive[b] = (probes[Newest(b)].res = 200)

----------------------------------------------------------------------------
(***************************************************************************)
(* Background loops, checked under SpecLoopsLive.                          *)
(***************************************************************************)
\* C36: after Stop the loop of the limiter, of the cache and of the health checker
\* terminates in the end, wherever the loop was when the stop channel was closed
C36_StopEndsLoop ==
    \A l \in Loops : loops[l].at # "" ~> loops[l].pc = "done"

\* every loop has returned: one was stopped before its goroutine ran, one while it
\* waited in its select and one during a round
C36_Witness ==
    /\ \A l \in Loops : loops[l].pc = "done"
    /\ {loops[l].at : l \in Loops} = {"new", "select", "round"}

(***************************************************************************)
(* Health checker and backend statistics                                   *)
(***************************************************************************)
\* C24: after a probe of a backend has completed the backend is alive exactly when the
\* probe got a response with a status from 200 to 299
C24_ProbeSetsFlag ==
    hc.backend # NoBackend =>
        (backendAlive[hc.backend] <=> (hc.res >= 200 /\ hc.res <= 299))

\* C27: the backend_status that GetStats returns has an entry for every configured
\* backend, equal to the backend's alive flag at the time of the call
C27_StatsReflectFlags ==
    stats.read =>
        /\ DOMAIN stats.backend_status = Backends
        /\ \A b \in Backends : stats.backend_status[b] = stats.alive[b]

=============================================================================
